---- MODULE Spec2Model ----
(***************************************************************************)
(* The lobby registry of server/lib/wsapi/lobbies.js (class LobbyApi) as   *)
(* a state machine: the copy-on-write tables of the registry, one action   *)
(* per websocket command, and the countdown / load handshake that          *)
(* startCountdown leaves suspended at its await.                           *)
(*                                                                         *)
(* Indexes are 1-based here and 0-based in the source; the not-found       *)
(* sentinel [-1, -1] of the source is <<0, 0>> here.                       *)
(***************************************************************************)
EXTENDS Integers, Sequences, FiniteSets, TLC

\* ---------------------------------------------------------------- bounds
NumUsers == 2
NumNames == 1
MapSlots == 2
MaxHandshakes == 1
MaxSuspended == 1
\* The create / join calls suspended at once in OverlapSpec.
MaxOverlap == 2
\* The slots of the larger map, which the lobbies of TeamSpec are created on.
WideMapSlots == 3
\* The sockets of ListSpec, and the subscribe calls a socket may have open.
NumSockets == 2
MaxSubscribes == 3
\* DiffSpec: the slots of a playable team, and the moves between two snapshots.
DiffTeamSize == 2
MaxMoves == 2
\* CreateSpec: the largest sub-type a create request carries.
MaxSubType == 5
\* PartySpec: the users, those of them who call invite and removeInvite, and
\* the parties at once.
NumPartyUsers == 9
NumPartyCallers == 2
MaxParties == 1

UserNames == <<"alice", "bob", "carol", "dave", "erin">>
Users == {UserNames[i] : i \in 1..NumUsers}
LobbyNames == <<"A", "B", "C">>
Names == {LobbyNames[i] : i \in 1..NumNames}
\* socket.id of each connection
Sockets == 1..NumSockets
\* Two of the four valid races; 'r' is the default of Slots.createHuman.
Races == {"r", "z"}
GameTypes == {"topVBottom"}
\* numSlots of a 1v1 lobby and of a team melee / team FFA lobby
OneVOneSlots == 2
TeamModeSlots == 8
\* numSlots of a create request whose map getMapInfo does not find
NoMap == 0

\* ------------------------------------------------- immutable Map helpers
MapHas(m, k) == k \in DOMAIN m
MapSet(m, k, v) == [x \in (DOMAIN m) \cup {k} |-> IF x = k THEN v ELSE m[x]]
MapDelete(m, k) == [x \in (DOMAIN m) \ {k} |-> m[x]]
EmptyMap == [x \in {} |-> 0]

Min(S) == CHOOSE x \in S : \A y \in S : x <= y

\* ------------------------------------------------------ slots and lobby
\* A slot is [id, type, name, race]; a lobby is
\* [name, gameType, gameSubType, host, teams], host being the host slot's id
\* and teams a sequence of sequences of slots.
NoSlot == [id |-> 0, type |-> "none", name |-> "", race |-> "r"]

RECURSIVE FlattenFrom(_, _)
FlattenFrom(teams, t) ==
  IF t > Len(teams) THEN <<>>
  ELSE [s \in 1..Len(teams[t]) |-> <<t, s, teams[t][s]>>] \o FlattenFrom(teams, t + 1)

\* getLobbySlotsWithIndexes: every slot with its coordinates, team-then-slot.
getLobbySlotsWithIndexes(lobby) == FlattenFrom(lobby.teams, 1)

SeqRange(q) == {q[i] : i \in 1..Len(q)}

RECURSIVE SelectTriples(_, _)
SelectTriples(q, types) ==
  IF q = <<>> THEN <<>>
  ELSE (IF Head(q)[3].type \in types THEN <<Head(q)>> ELSE <<>>)
       \o SelectTriples(Tail(q), types)

\* The slots of a sequence of <<team, slot, slot record>> triples.
SlotsOf(q) == [i \in 1..Len(q) |-> q[i][3]]

getLobbySlots(lobby) == SlotsOf(getLobbySlotsWithIndexes(lobby))

getHumanSlotsWithIndexes(lobby) ==
  SelectTriples(getLobbySlotsWithIndexes(lobby), {"human"})

\* getHumanSlots: the slots of type human, team-then-slot.
getHumanSlots(lobby) == SlotsOf(getHumanSlotsWithIndexes(lobby))

SlotIds(lobby) == {sl.id : sl \in SeqRange(getLobbySlots(lobby))}

NotFound == <<0, 0, NoSlot>>

\* findSlotByName: the human slot of that name, or the not-found triple.
RECURSIVE FirstByName(_, _)
FirstByName(q, name) ==
  IF q = <<>> THEN NotFound
  ELSE IF Head(q)[3].name = name THEN Head(q) ELSE FirstByName(Tail(q), name)

findSlotByName(lobby, name) ==
  FirstByName(SelectTriples(getLobbySlotsWithIndexes(lobby), {"human", "observer"}), name)

\* findSlotById
RECURSIVE FirstById(_, _)
FirstById(q, id) ==
  IF q = <<>> THEN NotFound
  ELSE IF Head(q)[3].id = id THEN Head(q) ELSE FirstById(Tail(q), id)

findSlotById(lobby, id) == FirstById(getLobbySlotsWithIndexes(lobby), id)

\* The id a slot constructor issues: one no slot of the lobby carries.
FreshId(used) == Min({i \in 1..(Cardinality(used) + 1) : i \notin used})

createHuman(id, name) == [id |-> id, type |-> "human", name |-> name, race |-> "r"]
createComputer(id) == [id |-> id, type |-> "computer", name |-> "Computer", race |-> "r"]
createOpenSlot(id) == [id |-> id, type |-> "open", name |-> "Open", race |-> "r"]
createClosedSlot(id) == [id |-> id, type |-> "closed", name |-> "Closed", race |-> "r"]

SetSlot(lobby, t, s, slot) == [lobby EXCEPT !.teams[t][s] = slot]

\* hasOpposingSides: two teams or more hold a human or computer slot.
hasOpposingSides(lobby) ==
  Cardinality({t \in 1..Len(lobby.teams) :
                 \E s \in 1..Len(lobby.teams[t]) :
                    lobby.teams[t][s].type \in {"human", "computer"}}) >= 2

\* findAvailableSlot: the first open slot, team-then-slot, or not found.
findAvailableSlot(lobby) ==
  LET First(q) == IF q = <<>> THEN NotFound ELSE q[1]
  IN First(SelectTriples(getLobbySlotsWithIndexes(lobby), {"open", "controlledOpen"}))

\* Lobbies.create. A top-vs-bottom lobby has gameSubType slots in the top team
\* and the rest in the bottom team; a team melee / team FFA lobby splits its
\* slots evenly over gameSubType teams; any other lobby has one team. Slot ids
\* count up through the teams and the host takes the first slot.
LobbiesCreate(name, gameType, gameSubType, numSlots, hostName) ==
  LET sizes == IF gameType = "topVBottom" THEN <<gameSubType, numSlots - gameSubType>>
               ELSE IF gameType \in {"teamMelee", "teamFfa"}
               THEN [t \in 1..gameSubType |->
                       (numSlots \div gameSubType)
                       + (IF t <= numSlots % gameSubType THEN 1 ELSE 0)]
               ELSE <<numSlots>>
      RECURSIVE Before(_)
      Before(t) == IF t = 1 THEN 0 ELSE Before(t - 1) + sizes[t - 1]
      Slot(id) == IF id = 1 THEN createHuman(1, hostName) ELSE createOpenSlot(id)
  IN [name |-> name, gameType |-> gameType, gameSubType |-> gameSubType,
      host |-> 1,
      teams |-> [t \in 1..Len(sizes) |-> [s \in 1..sizes[t] |-> Slot(Before(t) + s)]]]

\* Lobbies.addPlayer: the slot at the coordinates is replaced by the player.
addPlayer(lobby, t, s, player) == SetSlot(lobby, t, s, player)

EmptyLobby == [name |-> "", gameType |-> "", gameSubType |-> 0, host |-> 0, teams |-> <<>>]

\* Lobbies.removePlayer: a fresh open slot takes the place; EmptyLobby stands
\* for the "lobby now empty" result; the host passes to the first human left.
removePlayer(lobby, t, s, toRemove) ==
  IF toRemove = NoSlot THEN lobby
  ELSE LET Rehost(updated, humans) ==
             IF humans = <<>> THEN EmptyLobby
             ELSE IF lobby.host = toRemove.id
                  THEN [updated EXCEPT !.host = humans[1].id]
                  ELSE updated
           Removed(updated) == Rehost(updated, getHumanSlots(updated))
       IN Removed(SetSlot(lobby, t, s, createOpenSlot(FreshId(SlotIds(lobby)))))

\* Lobbies.movePlayerToSlot: the player keeps its id at the destination and a
\* fresh open slot is left behind.
movePlayerToSlot(lobby, st, ss, dt, ds) ==
  LET moved == SetSlot(lobby, dt, ds, lobby.teams[st][ss])
  IN SetSlot(moved, st, ss, createOpenSlot(FreshId(SlotIds(lobby))))

LobbiesSetRace(lobby, t, s, race) == [lobby EXCEPT !.teams[t][s].race = race]
LobbiesOpenSlot(lobby, t, s) == SetSlot(lobby, t, s, createOpenSlot(FreshId(SlotIds(lobby))))
LobbiesCloseSlot(lobby, t, s) == SetSlot(lobby, t, s, createClosedSlot(FreshId(SlotIds(lobby))))

\* Lobbies.toSummaryJson: what the lobby list shows of a lobby.
toSummaryJson(lobby) ==
  [name |-> lobby.name, host |-> findSlotById(lobby, lobby.host)[3].name,
   openSlotCount |-> Len(SelectTriples(getLobbySlotsWithIndexes(lobby),
                                       {"open", "controlledOpen"}))]

\* What the handshake's closures read of the lobby snapshot they hold: its
\* name, the names of getHumanSlots(lobby) in order, and its summary.
View(lobby) ==
  LET NamesOf(q) == [i \in 1..Len(q) |-> q[i].name]
  IN [name |-> lobby.name,
      players |-> NamesOf(getHumanSlots(lobby)),
      summary |-> toSummaryJson(lobby)]

\* checkSubTypeValidity with the lower limits one less.
checkSubTypeValidity_LowerByOne(gameType, gameSubType, numSlots) ==
  IF gameType = "topVBottom"
  THEN ~(gameSubType < 0 \/ gameSubType > numSlots - 1)
  ELSE IF gameType \in {"teamMelee", "teamFfa"}
       THEN ~(gameSubType < 1 \/ gameSubType > (IF 4 < numSlots THEN 4 ELSE numSlots))
       ELSE TRUE

\* checkSubTypeValidity: TRUE when the sub-type is accepted.
checkSubTypeValidity(gameType, gameSubType, numSlots) ==
  IF gameType = "topVBottom"
  THEN ~(gameSubType < 1 \/ gameSubType > numSlots - 1)
  ELSE IF gameType \in {"teamMelee", "teamFfa"}
       THEN ~(gameSubType < 2 \/ gameSubType > (IF 4 < numSlots THEN 4 ELSE numSlots))
       ELSE TRUE

\* The slots create gives the lobby of a game type on a map of mapSlots slots.
lobbyNumSlots(gameType, mapSlots) ==
  IF gameType = "oneVOne" THEN OneVOneSlots
  ELSE IF gameType \in {"teamMelee", "teamFfa"} THEN TeamModeSlots
  ELSE mapSlots

\* ------------------------------------------------------- registry state
VARIABLES
  lobbies,           \* this.lobbies: name -> lobby
  lobbyClients,      \* this.lobbyClients: client -> lobby name
  lobbyBannedUsers,  \* this.lobbyBannedUsers: name -> banned user names
  lobbyCountdowns,   \* this.lobbyCountdowns: name -> handshake owning the timer
  loadingLobbies,    \* this.loadingLobbies: name -> game id
  activeClients,     \* the activity registry: the users with a registered client
  subscriptions,     \* <<user, path>>: the lobby paths a user's client follows
  handshakes,        \* id -> the startCountdown calls whose closures can still run
  suspended,         \* create / join calls suspended in getMapInfo
  subscribedSockets, \* this.subscribedSockets: socket id -> count of its ListSubscription
  listChannel,       \* the sockets the transport has subscribed to MOUNT_BASE
  closeListeners,    \* the sockets whose 'close' event has the onClose listener
  openSockets,       \* the sockets that have not closed
  diffCall,          \* one call of _publishLobbyDiff taken alone: arguments and events
  parties            \* PartyService: party id -> [leader, members, invites]

vars == <<lobbies, lobbyClients, lobbyBannedUsers, lobbyCountdowns, loadingLobbies,
          activeClients, subscriptions, handshakes, suspended,
          subscribedSockets, listChannel, closeListeners, openSockets,
          diffCall, parties>>

\* The registry as one value R, threaded through the methods below. R.out
\* collects the published messages, R.diffs the arguments of each call of
\* _publishLobbyDiff, and R.err is "ok" until a method throws.
Cur ==
  [lobbies |-> lobbies, lobbyClients |-> lobbyClients,
   lobbyBannedUsers |-> lobbyBannedUsers, lobbyCountdowns |-> lobbyCountdowns,
   loadingLobbies |-> loadingLobbies, activeClients |-> activeClients,
   subscriptions |-> subscriptions, handshakes |-> handshakes,
   subscribedSockets |-> subscribedSockets, listChannel |-> listChannel,
   closeListeners |-> closeListeners, openSockets |-> openSockets,
   out |-> <<>>, diffs |-> <<>>, err |-> "ok"]

Throw(R, e) == [R EXCEPT !.err = e]

\* ---------------------------------------------------------------- paths
MOUNT_BASE == <<"lobbies">>
getPath(lobby) == <<"lobbies", lobby.name>>
getUserPath(lobby, username) == <<"lobbies", lobby.name, "user", username>>
getClientPath(lobby, client) == <<"lobbies", lobby.name, "client", client>>

Publish(R, path, type, arg) ==
  [R EXCEPT !.out = Append(@, [path |-> path, type |-> type, arg |-> arg])]

publishListChange(R, action, summary) == Publish(R, MOUNT_BASE, action, summary)
publishTo(R, lobby, type, arg) == Publish(R, getPath(lobby), type, arg)
publishToUser(R, lobby, username, type, arg) ==
  Publish(R, getUserPath(lobby, username), type, arg)

\* _publishToClient: getActiveClientForUser throws when the user has none.
publishToClient(R, lobby, username, type, arg) ==
  IF username \notin R.activeClients THEN Throw(R, "BadRequest")
  ELSE Publish(R, getClientPath(lobby, username), type, arg)

\* ----------------------------------------------------------- diff engine
RECURSIVE SortedSeq(_)
SortedSeq(S) == IF S = {} THEN <<>> ELSE <<Min(S)>> \o SortedSeq(S \ {Min(S)})

\* An event that leaves its coordinates out.
Event_AtOrigin(type, t, s, slot) ==
  [type |-> type, teamIndex |-> 0, slotIndex |-> 0, slot |-> slot]

Event(type, t, s, slot) == [type |-> type, teamIndex |-> t, slotIndex |-> s, slot |-> slot]

\* The events of _publishLobbyDiff, in the order the method pushes them. The
\* ids of each group are taken in ascending order.
DiffEvents(oldLobby, newLobby, kickedUser, bannedUser, deletedSlotIndex) ==
  LET hostEv == IF newLobby.host # oldLobby.host
                THEN <<Event("hostChange", 0, 0, findSlotById(newLobby, newLobby.host)[3])>>
                ELSE <<>>
      LeftEv(id) ==
        LET Ev(player) == Event(IF kickedUser = player.name THEN "kick"
                                ELSE IF bannedUser = player.name THEN "ban" ELSE "leave",
                                0, 0, player)
        IN Ev(findSlotById(oldLobby, id)[3])
      DeletedEv(t) == Event("slotDeleted", t, deletedSlotIndex, NoSlot)
      CreatedEv(id) ==
        LET Ev(n) == Event("slotCreate", n[1], n[2], n[3])
        IN Ev(findSlotById(newLobby, id))
      SameEv(id) ==
        LET Ev(o, n, samePlace) ==
              IF samePlace /\ o[3] = n[3] THEN <<>>
              ELSE (IF ~samePlace THEN <<Event("slotChange", n[1], n[2], n[3])>> ELSE <<>>)
                   \o (IF samePlace /\ o[3].race # n[3].race
                       THEN <<Event("raceChange", n[1], n[2], n[3])>> ELSE <<>>)
            At(o, n) == Ev(o, n, o[1] = n[1] /\ o[2] = n[2])
        IN At(findSlotById(oldLobby, id), findSlotById(newLobby, id))
      RECURSIVE SameEvs(_)
      SameEvs(q) == IF q = <<>> THEN <<>> ELSE SameEv(Head(q)) \o SameEvs(Tail(q))
      shrunk == {t \in 1..Len(oldLobby.teams) :
                   t <= Len(newLobby.teams)
                   /\ Len(oldLobby.teams[t]) > Len(newLobby.teams[t])}
      Events(left, deleted, created, same) ==
        hostEv
        \o [i \in 1..Len(left) |-> LeftEv(left[i])]
        \o [i \in 1..Len(deleted) |-> DeletedEv(deleted[i])]
        \o [i \in 1..Len(created) |-> CreatedEv(created[i])]
        \o SameEvs(same)
      Split(oldHumans, newSlots, same) ==
        Events(SortedSeq(oldHumans \ same), SortedSeq(shrunk),
               SortedSeq(newSlots \ same), SortedSeq(same))
      Compare(oldSlots, newSlots) ==
        Split({sl.id : sl \in SeqRange(getHumanSlots(oldLobby))}, newSlots,
              oldSlots \cap newSlots)
  IN Compare(SlotIds(oldLobby), SlotIds(newLobby))

\* The call of _publishLobbyDiff that took R to R1, noted in R1.diffs with its
\* arguments and the messages it published.
LogDiff(R, R1, oldLobby, newLobby, kickedUser, bannedUser, deletedSlotIndex) ==
  [R1 EXCEPT !.diffs = Append(@, [oldLobby |-> oldLobby, newLobby |-> newLobby,
                                  kickedUser |-> kickedUser, bannedUser |-> bannedUser,
                                  deletedSlotIndex |-> deletedSlotIndex,
                                  sent |-> SubSeq(R1.out, Len(R.out) + 1, Len(R1.out))])]

\* _publishLobbyDiff sending the events last first.
publishLobbyDiff_Reversed(R, oldLobby, newLobby, kickedUser, bannedUser, deletedSlotIndex) ==
  LET Send(diffEvents) ==
        publishListChange(
          IF Len(diffEvents) > 0
          THEN publishTo(R, newLobby, "diff",
                         [i \in 1..Len(diffEvents) |-> diffEvents[Len(diffEvents) + 1 - i]])
          ELSE R,
          "update", toSummaryJson(newLobby))
  IN LogDiff(R,
             IF oldLobby = newLobby THEN R
             ELSE Send(DiffEvents(oldLobby, newLobby, kickedUser, bannedUser,
                                  deletedSlotIndex)),
             oldLobby, newLobby, kickedUser, bannedUser, deletedSlotIndex)

\* _publishLobbyDiff leaving out the event it pushed last.
publishLobbyDiff_DropsLast(R, oldLobby, newLobby, kickedUser, bannedUser, deletedSlotIndex) ==
  LET Send(diffEvents) ==
        publishListChange(IF Len(diffEvents) > 1
                          THEN publishTo(R, newLobby, "diff",
                                         SubSeq(diffEvents, 1, Len(diffEvents) - 1))
                          ELSE R,
                          "update", toSummaryJson(newLobby))
  IN LogDiff(R,
             IF oldLobby = newLobby THEN R
             ELSE Send(DiffEvents(oldLobby, newLobby, kickedUser, bannedUser,
                                  deletedSlotIndex)),
             oldLobby, newLobby, kickedUser, bannedUser, deletedSlotIndex)

\* _publishLobbyDiff overlooking the kicked and banned hints.
publishLobbyDiff_NoHints(R, oldLobby, newLobby, kickedUser, bannedUser, deletedSlotIndex) ==
  LET Send(diffEvents) ==
        publishListChange(IF Len(diffEvents) > 0
                          THEN publishTo(R, newLobby, "diff", diffEvents)
                          ELSE R,
                          "update", toSummaryJson(newLobby))
  IN LogDiff(R,
             IF oldLobby = newLobby THEN R
             ELSE Send(DiffEvents(oldLobby, newLobby, "", "", deletedSlotIndex)),
             oldLobby, newLobby, kickedUser, bannedUser, deletedSlotIndex)

\* _publishLobbyDiff without the early return for identical snapshots.
publishLobbyDiff_NoShortcut(R, oldLobby, newLobby, kickedUser, bannedUser, deletedSlotIndex) ==
  LET Send(diffEvents) ==
        publishListChange(IF Len(diffEvents) > 0
                          THEN publishTo(R, newLobby, "diff", diffEvents)
                          ELSE R,
                          "update", toSummaryJson(newLobby))
  IN LogDiff(R,
             Send(DiffEvents(oldLobby, newLobby, kickedUser, bannedUser, deletedSlotIndex)),
             oldLobby, newLobby, kickedUser, bannedUser, deletedSlotIndex)

\* _publishLobbyDiff. The snapshots are immutable values: two of them are the
\* same object exactly when no transition changed anything in between.
publishLobbyDiff(R, oldLobby, newLobby, kickedUser, bannedUser, deletedSlotIndex) ==
  LET Send(diffEvents) ==
        publishListChange(IF Len(diffEvents) > 0
                          THEN publishTo(R, newLobby, "diff", diffEvents)
                          ELSE R,
                          "update", toSummaryJson(newLobby))
  IN LogDiff(R,
             IF oldLobby = newLobby THEN R
             ELSE Send(DiffEvents(oldLobby, newLobby, kickedUser, bannedUser,
                                  deletedSlotIndex)),
             oldLobby, newLobby, kickedUser, bannedUser, deletedSlotIndex)

\* ------------------------------------------------------ private methods
REMOVAL_TYPE_NORMAL == 0
REMOVAL_TYPE_KICK == 1
REMOVAL_TYPE_BAN == 2

LobbyPaths(lobby, user) ==
  {getPath(lobby), getUserPath(lobby, user), getClientPath(lobby, user)}

\* _subscribeClientToLobby
subscribeClientToLobby(R, lobby, user) ==
  [R EXCEPT !.subscriptions = @ \cup {<<user, p>> : p \in LobbyPaths(lobby, user)}]

Unsubscribe(R, lobby, user) ==
  [R EXCEPT !.subscriptions = @ \ {<<user, p>> : p \in LobbyPaths(lobby, user)}]

\* _maybeCancelCountdown forgetting to reject the deferred.
maybeCancelCountdown_KeepsTimer(R, lobby) ==
  IF ~MapHas(R.lobbyCountdowns, lobby.name) THEN R
  ELSE LET R1 == [R EXCEPT !.lobbyCountdowns = MapDelete(@, lobby.name)]
           R2 == publishTo(R1, lobby, "cancelCountdown", 0)
       IN publishListChange(R2, "add", lobby.summary)

\* _maybeCancelCountdown without its early return: it republishes when the
\* lobby has no countdown record.
maybeCancelCountdown_Republishes(R, lobby) ==
  LET Republish(R1) == publishListChange(publishTo(R1, lobby, "cancelCountdown", 0),
                                         "add", lobby.summary)
  IN IF ~MapHas(R.lobbyCountdowns, lobby.name) THEN Republish(R)
     ELSE Republish([R EXCEPT
                       !.handshakes[R.lobbyCountdowns[lobby.name]].timer =
                          IF @ = "pending" THEN "rejected" ELSE @,
                       !.lobbyCountdowns = MapDelete(@, lobby.name)])

\* _maybeCancelCountdown, on the view of the lobby passed: rejects the deferred of the countdown record (a
\* settled deferred stays as it is), deletes the record and republishes.
maybeCancelCountdown(R, lobby) ==
  IF ~MapHas(R.lobbyCountdowns, lobby.name) THEN R
  ELSE LET h == R.lobbyCountdowns[lobby.name]
           R1 == [R EXCEPT
                    !.handshakes[h].timer = IF @ = "pending" THEN "rejected" ELSE @,
                    !.lobbyCountdowns = MapDelete(@, lobby.name)]
           R2 == publishTo(R1, lobby, "cancelCountdown", 0)
       IN publishListChange(R2, "add", lobby.summary)

\* _onLoadingCanceled forgetting to delete the loading mark.
onLoadingCanceled_KeepsMark(R, lobby) ==
  publishListChange(publishTo(R, lobby, "cancelLoading", 0), "add", lobby.summary)

\* _onLoadingCanceled
onLoadingCanceled(R, lobby) ==
  LET R1 == [R EXCEPT !.loadingLobbies = MapDelete(@, lobby.name)]
      R2 == publishTo(R1, lobby, "cancelLoading", 0)
  IN publishListChange(R2, "add", lobby.summary)

\* _removeClientFromLobby keeping the lobby and its ban list when the last
\* human has left: only the leaver's own entries go.
removeClientFromLobby_KeepsEmptyLobby(R, lobby, userName, removalType) ==
  IF userName \notin R.activeClients THEN Throw(R, "BadRequest")
  ELSE LET R2 == [R EXCEPT !.lobbyClients = MapDelete(@, userName),
                          !.activeClients = @ \ {userName}]
           R3 == publishToUser(R2, lobby, userName, "status", "null")
       IN Unsubscribe(maybeCancelCountdown(R3, View(lobby)), lobby, userName)

\* _removeClientFromLobby
removeClientFromLobby(R, lobby, userName, removalType) ==
  IF userName \notin R.activeClients THEN Throw(R, "BadRequest")
  ELSE
    LET Remove(t, s, player) ==
          LET Update(updatedLobby) ==
                IF updatedLobby = EmptyLobby
                THEN LET A == publishTo(R, lobby, "leave", player)
                         B == [A EXCEPT !.lobbies = MapDelete(@, lobby.name),
                                        !.lobbyBannedUsers = MapDelete(@, lobby.name)]
                     IN publishListChange(B, "delete", lobby.name)
                ELSE publishLobbyDiff(
                       [R EXCEPT !.lobbies = MapSet(@, lobby.name, updatedLobby)],
                       lobby, updatedLobby,
                       IF removalType = REMOVAL_TYPE_KICK THEN userName ELSE "",
                       IF removalType = REMOVAL_TYPE_BAN THEN userName ELSE "",
                       0)
              R1 == Update(removePlayer(lobby, t, s, player))
              R2 == [R1 EXCEPT !.lobbyClients = MapDelete(@, userName),
                               !.activeClients = @ \ {userName}]
              R3 == publishToUser(R2, lobby, userName, "status", "null")
              \* after _maybeCancelCountdown: the loading check, the unsubscribes
              Rest(R4) ==
                Unsubscribe(IF MapHas(R4.loadingLobbies, lobby.name)
                            THEN publishToUser(R4, lobby, userName, "cancelLoading", 0)
                            ELSE R4,
                            lobby, userName)
          IN Rest(maybeCancelCountdown(R3, View(lobby)))
        Found(f) == Remove(f[1], f[2], f[3])
    IN Found(findSlotByName(lobby, userName))

\* _onGameSetup: the loading mark, then setupGame to each human's client; a
\* human without an active client makes the publish throw into the loader.
RECURSIVE SetupGameLoop(_, _, _)
SetupGameLoop(R, lobby, players) ==
  IF players = <<>> \/ R.err # "ok" THEN R
  ELSE SetupGameLoop(publishToClient(R, lobby, Head(players), "setupGame", 0),
                     lobby, Tail(players))

onGameSetup(R, lobby, gameId) ==
  SetupGameLoop([R EXCEPT !.loadingLobbies = MapSet(@, lobby.name, gameId)],
                lobby, lobby.players)

\* _onRoutesSet
onRoutesSet(R, lobby, playerName, gameId) ==
  publishToClient(R, lobby, playerName, "setRoutes", gameId)

\* _onGameLoaded: the forEach over the humans of the snapshot stops with a
\* TypeError at the first one the activity registry has no client for.
RECURSIVE GameLoadedLoop(_, _, _)
GameLoadedLoop(R, lobby, players) ==
  IF players = <<>> THEN R
  ELSE LET name == Head(players)
       IN IF name \notin R.activeClients THEN Throw(R, "TypeError")
          ELSE LET R1 == publishToUser(R, lobby, name, "status", "null")
                   R2 == Unsubscribe(R1, lobby, name)
                   R3 == [R2 EXCEPT !.lobbyClients = MapDelete(@, name),
                                    !.activeClients = @ \ {name}]
               IN GameLoadedLoop(R3, lobby, Tail(players))

onGameLoaded(R, lobby) ==
  LET Delete(R2) ==
        IF R2.err # "ok" THEN R2
        ELSE [R2 EXCEPT !.lobbies = MapDelete(@, lobby.name),
                        !.loadingLobbies = MapDelete(@, lobby.name)]
  IN Delete(GameLoadedLoop(publishTo(R, lobby, "gameStarted", 0), lobby, lobby.players))

\* ------------------------------------------- the startCountdown handshake
\* One record per startCountdown call that passed its checks, under an id the
\* model gives it (the least one free):
\*   lobby       the view of the snapshot the call closed over
\*   timer       the countdownTimer deferred: pending, resolved or rejected; the
\*               5 s platform timer is armed exactly while it is pending
\*   loader      the promise gameLoader.loadGame returned
\*   setupDone   onGameSetup was delivered (the closure's gameId is then set)
\*   allowTimer  allowStartTimerId: unset, armed, fired or cleared
\*   outcome     pending (the call is suspended at await Promise.all), started
\*               (the try block ended) or rolledBack (the catch block ran)
\*   gameStarted the call entered _onGameLoaded
\*   thrown      the error the call ended with ("ok": it returned normally)
NewHandshake(lobby) ==
  [lobby |-> lobby, timer |-> "pending", loader |-> "pending", setupDone |-> FALSE,
   allowTimer |-> "unset", outcome |-> "pending", gameStarted |-> FALSE,
   thrown |-> "ok"]

\* The finally block: both timers are cleared and the call ends with the
\* outcome given, throwing what is still uncaught.
Finally(R, h, outcome) ==
  [R EXCEPT !.handshakes[h].outcome = outcome,
            !.handshakes[h].thrown = R.err,
            !.handshakes[h].timer = IF @ = "pending" THEN "cleared" ELSE @,
            !.handshakes[h].allowTimer = IF @ = "armed" THEN "cleared" ELSE @,
            !.err = "ok"]

\* A catch block that rethrows after the rollback.
CatchFinally_Rethrows(R, h) ==
  LET lobby == R.handshakes[h].lobby
      R1 == maybeCancelCountdown([R EXCEPT !.err = "ok"], lobby)
      R2 == onLoadingCanceled(R1, lobby)
  IN Finally([R2 EXCEPT !.err = R.err], h, "rolledBack")

\* The catch block, which swallows the error, then finally.
CatchFinally(R, h) ==
  LET lobby == R.handshakes[h].lobby
      R1 == maybeCancelCountdown([R EXCEPT !.err = "ok"], lobby)
      R2 == onLoadingCanceled(R1, lobby)
  IN Finally(R2, h, "rolledBack")

\* The call awaiting the loader alone.
Resume_LoaderAlone(R, h) ==
  LET hs == R.handshakes[h]
      End(R1) == IF R1.err = "ok" THEN Finally(R1, h, "started") ELSE CatchFinally(R1, h)
  IN IF hs.loader = "resolved"
     THEN End(onGameLoaded([R EXCEPT !.handshakes[h].gameStarted = TRUE], hs.lobby))
     ELSE CatchFinally(Throw(R, "LoadFailed"), h)

\* The call resumes after await Promise.all([countdownTimer, gameLoaded]): in
\* the try block when both resolved, else in the catch block with the
\* rejection.
Resume(R, h) ==
  LET hs == R.handshakes[h]
      End(R1) == IF R1.err = "ok" THEN Finally(R1, h, "started") ELSE CatchFinally(R1, h)
  IN IF hs.timer = "resolved" /\ hs.loader = "resolved"
     THEN End(onGameLoaded([R EXCEPT !.handshakes[h].gameStarted = TRUE], hs.lobby))
     ELSE CatchFinally(Throw(R, IF hs.timer = "rejected" THEN "CountdownCancelled"
                                ELSE "LoadFailed"), h)

\* The suspended calls whose Promise.all has settled.
Ready(R) ==
  {h \in DOMAIN R.handshakes :
     /\ R.handshakes[h].outcome = "pending"
     /\ \/ R.handshakes[h].timer = "rejected"
        \/ R.handshakes[h].loader = "rejected"
        \/ R.handshakes[h].timer = "resolved" /\ R.handshakes[h].loader = "resolved"}

RECURSIVE SettleLoop(_)
SettleLoop(R) == IF Ready(R) = {} THEN R ELSE SettleLoop(Resume(R, Min(Ready(R))))

\* The microtasks that follow a handler: every settled await resumes before
\* the next command or timer runs. The handler's own error is kept.
Settle(R) == [SettleLoop([R EXCEPT !.err = "ok"]) EXCEPT !.err = R.err]

\* ------------------------------------------------------------- checks
\* getLobbyForClient, and the lobby it returns being undefined.
LobbyCheck(R, u) ==
  IF ~MapHas(R.lobbyClients, u) THEN "BadRequest"
  ELSE IF ~MapHas(R.lobbies, R.lobbyClients[u]) THEN "TypeError"
  ELSE "ok"

LobbyOf(R, u) == R.lobbies[R.lobbyClients[u]]

\* ensureIsLobbyHost letting every caller through.
ensureIsLobbyHost_Anyone(lobby, u) == "ok"

\* ensureIsLobbyHost, on the slot findSlotByName found for the caller.
ensureIsLobbyHost(lobby, u) ==
  LET player == findSlotByName(lobby, u)[3]
  IN IF player = NoSlot THEN "TypeError"
     ELSE IF player.id # lobby.host THEN "Unauthorized"
     ELSE "ok"

ensureLobbyNotLoading(R, lobby) ==
  IF MapHas(R.loadingLobbies, lobby.name) THEN "Conflict" ELSE "ok"

\* ensureLobbyNotTransient looking at the loading table only.
ensureLobbyNotTransient_LoadingOnly(R, lobby) ==
  IF MapHas(R.loadingLobbies, lobby.name) THEN "Conflict" ELSE "ok"

ensureLobbyNotTransient(R, lobby) ==
  IF MapHas(R.lobbyCountdowns, lobby.name) THEN "Conflict"
  ELSE IF MapHas(R.loadingLobbies, lobby.name) THEN "Conflict"
  ELSE "ok"

\* The checks the host-only commands open with, in the handlers' order.
HostChecks(R, u) ==
  IF LobbyCheck(R, u) # "ok" THEN LobbyCheck(R, u)
  ELSE IF ensureIsLobbyHost(LobbyOf(R, u), u) # "ok" THEN ensureIsLobbyHost(LobbyOf(R, u), u)
  ELSE ensureLobbyNotTransient(R, LobbyOf(R, u))

SetLobby(R, lobby) == [R EXCEPT !.lobbies = MapSet(@, lobby.name, lobby)]

\* ------------------------------------------------------------ handlers
\* Each handler maps the registry R to the registry it leaves, R.err being
\* the error it threw ("ok": none). What it changed before throwing stays.

\* _kickPlayerFromLobby
kickPlayerFromLobby(R, lobby, t, s, playerToKick) ==
  IF playerToKick.type = "computer"
  THEN LET updated == removePlayer(lobby, t, s, playerToKick)
       IN publishLobbyDiff(SetLobby(R, updated), lobby, updated, "", "", 0)
  ELSE IF playerToKick.type \in {"human", "observer"}
       THEN removeClientFromLobby(R, lobby, playerToKick.name, REMOVAL_TYPE_KICK)
       ELSE R

\* ------------------------------------------------ lobby-list subscriptions
\* The summaries of the lobbies, which the transport sends a new subscriber.
Summaries(R) == {toSummaryJson(R.lobbies[n]) : n \in DOMAIN R.lobbies}

\* nydus.subscribeClient(socket, MOUNT_BASE, initial) and
\* nydus.unsubscribeClient(socket, MOUNT_BASE): the calls are kept in R.out.
subscribeClient(R, socket, initial) ==
  Publish([R EXCEPT !.listChannel = @ \cup {socket}], MOUNT_BASE, "subscribeClient",
          [socket |-> socket, initial |-> initial])

unsubscribeClient(R, socket) ==
  Publish([R EXCEPT !.listChannel = @ \ {socket}], MOUNT_BASE, "unsubscribeClient",
          [socket |-> socket])

\* subscribe
subscribe(R, socket) ==
  IF MapHas(R.subscribedSockets, socket)
  THEN [R EXCEPT !.subscribedSockets[socket] = @ + 1]
  ELSE LET R1 == subscribeClient(R, socket, [action |-> "full", payload |-> Summaries(R)])
       IN [R1 EXCEPT !.closeListeners = @ \cup {socket},
                     !.subscribedSockets = MapSet(@, socket, 1)]

\* unsubscribe dropping the subscription whatever its count.
unsubscribe_DropsAtOnce(R, socket) ==
  IF ~MapHas(R.subscribedSockets, socket) THEN Throw(R, "Conflict")
  ELSE LET R1 == unsubscribeClient(R, socket)
       IN [R1 EXCEPT !.subscribedSockets = MapDelete(@, socket),
                     !.closeListeners = @ \ {socket}]

\* unsubscribe returning quietly when the socket has no subscription.
unsubscribe_IgnoresMissing(R, socket) ==
  IF ~MapHas(R.subscribedSockets, socket) THEN R
  ELSE IF R.subscribedSockets[socket] = 1
       THEN LET R1 == unsubscribeClient(R, socket)
            IN [R1 EXCEPT !.subscribedSockets = MapDelete(@, socket),
                          !.closeListeners = @ \ {socket}]
       ELSE [R EXCEPT !.subscribedSockets[socket] = @ - 1]

\* unsubscribe
unsubscribe(R, socket) ==
  IF ~MapHas(R.subscribedSockets, socket) THEN Throw(R, "Conflict")
  ELSE IF R.subscribedSockets[socket] = 1
       THEN LET R1 == unsubscribeClient(R, socket)
            IN [R1 EXCEPT !.subscribedSockets = MapDelete(@, socket),
                          !.closeListeners = @ \ {socket}]
       ELSE [R EXCEPT !.subscribedSockets[socket] = @ - 1]

\* The socket closes: the onClose listener of subscribe runs, if it is still
\* registered.
onSocketClose(R, socket) ==
  LET R0 == [R EXCEPT !.openSockets = @ \ {socket}, !.closeListeners = @ \ {socket}]
  IN IF socket \notin R.closeListeners THEN R0
     ELSE [unsubscribeClient(R0, socket) EXCEPT
             !.subscribedSockets = MapDelete(@, socket)]

\* The longest text sendChat passes on.
MaxChatLength == 500

\* sendChat: a text of textLength characters, cut to MaxChatLength, goes to the
\* lobby's channel.
sendChat(R, u, textLength) ==
  IF LobbyCheck(R, u) # "ok" THEN Throw(R, LobbyCheck(R, u))
  ELSE publishTo(R, LobbyOf(R, u), "chat",
                 [from |-> u,
                  text |-> IF textLength > MaxChatLength THEN MaxChatLength
                           ELSE textLength])

addComputer(R, u, slotId) ==
  IF HostChecks(R, u) # "ok" THEN Throw(R, HostChecks(R, u))
  ELSE LET lobby == LobbyOf(R, u)
           f == findSlotById(lobby, slotId)
       IN IF f[3] = NoSlot THEN Throw(R, "BadRequest")
          ELSE IF f[3].type \notin {"open", "closed"} THEN Throw(R, "BadRequest")
          ELSE LET computer == createComputer(FreshId(SlotIds(lobby)))
                   updated == addPlayer(lobby, f[1], f[2], computer)
               IN publishLobbyDiff(SetLobby(R, updated), lobby, updated, "", "", 0)

changeSlot(R, u, slotId) ==
  IF LobbyCheck(R, u) # "ok" THEN Throw(R, LobbyCheck(R, u))
  ELSE LET lobby == LobbyOf(R, u)
           src == findSlotByName(lobby, u)
           dst == findSlotById(lobby, slotId)
       IN IF ensureLobbyNotTransient(R, lobby) # "ok" THEN Throw(R, "Conflict")
          ELSE IF dst[3] = NoSlot THEN Throw(R, "BadRequest")
          ELSE IF dst[3].type \notin {"open", "controlledOpen"} THEN Throw(R, "BadRequest")
          ELSE IF src[3] = NoSlot THEN Throw(R, "BadRequest")
          ELSE LET updated == movePlayerToSlot(lobby, src[1], src[2], dst[1], dst[2])
               IN publishLobbyDiff(SetLobby(R, updated), lobby, updated, "", "", 0)

setRace(R, u, id, race) ==
  IF LobbyCheck(R, u) # "ok" THEN Throw(R, LobbyCheck(R, u))
  ELSE LET lobby == LobbyOf(R, u)
           player == findSlotByName(lobby, u)[3]
           f == findSlotById(lobby, id)
       IN IF ensureLobbyNotLoading(R, lobby) # "ok" THEN Throw(R, "Conflict")
          ELSE IF f[3] = NoSlot THEN Throw(R, "BadRequest")
          ELSE IF f[3].type \notin {"computer", "human", "controlledOpen", "controlledClosed"}
               THEN Throw(R, "BadRequest")
          ELSE IF f[3].type = "computer" /\ ensureIsLobbyHost(lobby, u) # "ok"
               THEN Throw(R, ensureIsLobbyHost(lobby, u))
          ELSE IF f[3].type # "computer" /\ player = NoSlot THEN Throw(R, "TypeError")
          ELSE IF f[3].type # "computer" /\ f[3].id # player.id THEN Throw(R, "Forbidden")
          ELSE LET updatedLobby == LobbiesSetRace(lobby, f[1], f[2], race)
               IN publishLobbyDiff(SetLobby(R, updatedLobby), lobby, updatedLobby, "", "", 0)

openSlot(R, u, slotId) ==
  IF HostChecks(R, u) # "ok" THEN Throw(R, HostChecks(R, u))
  ELSE LET lobby == LobbyOf(R, u)
           f == findSlotById(lobby, slotId)
       IN IF f[3] = NoSlot THEN Throw(R, "BadRequest")
          ELSE IF f[3].type \in {"open", "controlledOpen", "umsComputer"}
               THEN Throw(R, "BadRequest")
          \* Lobbies.openSlot throws for a slot that is not closed
          ELSE IF f[3].type # "closed" THEN Throw(R, "BadRequest")
          ELSE LET updated == LobbiesOpenSlot(lobby, f[1], f[2])
               IN publishLobbyDiff(SetLobby(R, updated), lobby, updated, "", "", 0)

closeSlot(R, u, slotId) ==
  IF HostChecks(R, u) # "ok" THEN Throw(R, HostChecks(R, u))
  ELSE LET lobby == LobbyOf(R, u)
           f == findSlotById(lobby, slotId)
       IN IF f[3] = NoSlot THEN Throw(R, "BadRequest")
          ELSE IF f[3].type \in {"closed", "controlledClosed", "umsComputer"}
               THEN Throw(R, "BadRequest")
          ELSE LET Close(R1) ==
                     IF R1.err # "ok" THEN R1
                     \* afterKick is undefined when the kick deleted the lobby
                     ELSE IF ~MapHas(R1.lobbies, lobby.name) THEN Throw(R1, "BadRequest")
                     ELSE LET afterKick == R1.lobbies[lobby.name]
                              updated == LobbiesCloseSlot(afterKick, f[1], f[2])
                          IN publishLobbyDiff(SetLobby(R1, updated), afterKick, updated,
                                              "", "", 0)
               IN Close(IF f[3].type \in {"human", "computer", "observer"}
                        THEN kickPlayerFromLobby(R, lobby, f[1], f[2], f[3])
                        ELSE R)

\* kickPlayer without the ensureLobbyNotTransient call.
kickPlayer_SkipsTransientCheck(R, u, slotId) ==
  IF LobbyCheck(R, u) # "ok" THEN Throw(R, LobbyCheck(R, u))
  ELSE LET lobby == LobbyOf(R, u)
           f == findSlotById(lobby, slotId)
       IN IF ensureIsLobbyHost(lobby, u) # "ok" THEN Throw(R, ensureIsLobbyHost(lobby, u))
          ELSE IF f[3] = NoSlot THEN Throw(R, "BadRequest")
          ELSE IF f[3].type \notin {"human", "computer", "observer"}
               THEN Throw(R, "BadRequest")
          ELSE kickPlayerFromLobby(R, lobby, f[1], f[2], f[3])

kickPlayer(R, u, slotId) ==
  IF HostChecks(R, u) # "ok" THEN Throw(R, HostChecks(R, u))
  ELSE LET lobby == LobbyOf(R, u)
           f == findSlotById(lobby, slotId)
       IN IF f[3] = NoSlot THEN Throw(R, "BadRequest")
          ELSE IF f[3].type \notin {"human", "computer", "observer"}
               THEN Throw(R, "BadRequest")
          ELSE kickPlayerFromLobby(R, lobby, f[1], f[2], f[3])

banPlayer(R, u, slotId) ==
  IF HostChecks(R, u) # "ok" THEN Throw(R, HostChecks(R, u))
  ELSE LET lobby == LobbyOf(R, u)
           playerToBan == findSlotById(lobby, slotId)[3]
       IN IF playerToBan = NoSlot THEN Throw(R, "BadRequest")
          ELSE IF playerToBan.type # "human" THEN Throw(R, "BadRequest")
          ELSE LET banned == IF MapHas(R.lobbyBannedUsers, lobby.name)
                             THEN R.lobbyBannedUsers[lobby.name] ELSE {}
                   R1 == [R EXCEPT !.lobbyBannedUsers =
                                     MapSet(@, lobby.name, banned \cup {playerToBan.name})]
               IN removeClientFromLobby(R1, lobby, playerToBan.name, REMOVAL_TYPE_BAN)

\* No lobby has an observer team (create passes allowObservers = false), so
\* Lobbies.makeObserver throws once the checks have passed.
makeObserver(R, u, slotId) ==
  IF HostChecks(R, u) # "ok" THEN Throw(R, HostChecks(R, u))
  ELSE Throw(R, "BadRequest")

removeObserver(R, u, slotId) ==
  IF HostChecks(R, u) # "ok" THEN Throw(R, HostChecks(R, u))
  ELSE Throw(R, "BadRequest")

leave(R, u) ==
  IF u \notin R.activeClients THEN Throw(R, "BadRequest")
  ELSE IF LobbyCheck(R, u) # "ok" THEN Throw(R, LobbyCheck(R, u))
  ELSE removeClientFromLobby(R, LobbyOf(R, u), u, REMOVAL_TYPE_NORMAL)

\* The cleanup _subscribeClientToLobby registered, run when the client closes.
onClientClose(R, u, lobbyName) ==
  LET R0 == [R EXCEPT !.subscriptions = {x \in @ : x[1] # u}]
  IN IF u \notin R.activeClients THEN Throw(R0, "BadRequest")
     ELSE IF ~MapHas(R.lobbies, lobbyName) THEN Throw(R0, "TypeError")
     ELSE removeClientFromLobby(R0, R.lobbies[lobbyName], u, REMOVAL_TYPE_NORMAL)

\* startCountdown up to its await.
startCountdown(R, u) ==
  IF LobbyCheck(R, u) # "ok" THEN Throw(R, LobbyCheck(R, u))
  ELSE LET lobby == LobbyOf(R, u)
       IN IF ~hasOpposingSides(lobby) THEN Throw(R, "BadRequest")
          ELSE IF ensureIsLobbyHost(lobby, u) # "ok" THEN Throw(R, ensureIsLobbyHost(lobby, u))
          ELSE IF ensureLobbyNotTransient(R, lobby) # "ok" THEN Throw(R, "Conflict")
          ELSE LET h == FreshId(DOMAIN R.handshakes)
                   R1 == [R EXCEPT !.handshakes = MapSet(@, h, NewHandshake(View(lobby))),
                                   !.lobbyCountdowns = MapSet(@, lobby.name, h)]
                   R2 == publishTo(R1, lobby, "startCountdown", 0)
               IN publishListChange(R2, "delete", lobby.name)

\* ------------------------------------------------- timers and the loader
\* The 5 s timer fires: countdownTimer resolves and its then-callback arms the
\* allowStart timer and deletes the countdown record of the lobby name.
timerFire(R, h) ==
  [R EXCEPT !.handshakes[h].timer = "resolved",
            !.handshakes[h].allowTimer = "armed",
            !.lobbyCountdowns = MapDelete(@, R.handshakes[h].lobby.name)]

\* The 2 s timer fires: allowStart with the closure's gameId (0: undefined).
allowStartFire(R, h) ==
  publishTo([R EXCEPT !.handshakes[h].allowTimer = "fired"], R.handshakes[h].lobby,
            "allowStart", IF R.handshakes[h].setupDone THEN h ELSE 0)

\* The callbacks and the promise of gameLoader.loadGame.
loaderSetup(R, h) ==
  onGameSetup([R EXCEPT !.handshakes[h].setupDone = TRUE], R.handshakes[h].lobby, h)

loaderRoutes(R, h, playerName) == onRoutesSet(R, R.handshakes[h].lobby, playerName, h)

loaderResolve(R, h) == [R EXCEPT !.handshakes[h].loader = "resolved"]

loaderReject(R, h) == [R EXCEPT !.handshakes[h].loader = "rejected"]

\* ------------------------------------------------- the session layer
\* A connection resolves to a user and to one of the user's clients, or to
\* neither. The registry holds one client of a user at most (create and join
\* register it with the activity registry, which refuses a second): client 1
\* is that one, client 2 another client of the same user, which no table
\* holds.
NoUser == "nobody"

Connections ==
  {[user |-> u, client |-> k] : u \in Users, k \in {1, 2}}
  \cup {[user |-> NoUser, client |-> 0]}

getUser(conn) == IF conn.user = NoUser THEN "Unauthorized" ELSE "ok"

getClient(conn) == IF conn.client = 0 THEN "Unauthorized" ELSE "ok"

\* A command that opens with getClient and getLobbyForClient, as the
\* connection's client issues it; closeSlot and kickPlayer call getUser first.
ByClient(R, conn, Handler(_)) ==
  IF getUser(conn) # "ok" THEN Throw(R, getUser(conn))
  ELSE IF getClient(conn) # "ok" THEN Throw(R, getClient(conn))
  ELSE IF conn.client # 1 THEN Throw(R, "BadRequest")
  ELSE Handler(conn.user)

\* leave, which opens with getUser and takes the client from the activity
\* registry: the connection's own client is never looked at.
leaveByUser(R, conn) ==
  IF getUser(conn) # "ok" THEN Throw(R, getUser(conn)) ELSE leave(R, conn.user)

\* getLobbyState: getClient, then the phase of the named lobby read from the
\* three tables. It assigns no field of the registry; its reply is the value.
LobbyStateReply(err, lobbyName, lobbyState) ==
  [err |-> err, lobbyName |-> lobbyName, lobbyState |-> lobbyState]

getLobbyState_TablesFirst(R, conn, lobbyName) ==
  IF getClient(conn) # "ok" THEN LobbyStateReply(getClient(conn), lobbyName, "none")
  ELSE LobbyStateReply("ok", lobbyName,
         IF MapHas(R.lobbyCountdowns, lobbyName) THEN "countingDown"
         ELSE IF MapHas(R.loadingLobbies, lobbyName) THEN "hasStarted"
         ELSE IF ~MapHas(R.lobbies, lobbyName) THEN "nonexistent"
         ELSE "exists")

getLobbyState(R, conn, lobbyName) ==
  IF getClient(conn) # "ok" THEN LobbyStateReply(getClient(conn), lobbyName, "none")
  ELSE LobbyStateReply("ok", lobbyName,
         IF ~MapHas(R.lobbies, lobbyName) THEN "nonexistent"
         ELSE IF MapHas(R.lobbyCountdowns, lobbyName) THEN "countingDown"
         ELSE IF MapHas(R.loadingLobbies, lobbyName) THEN "hasStarted"
         ELSE "exists")

\* join and create up to their first table access.
openByUser(R, conn) ==
  IF getUser(conn) # "ok" THEN Throw(R, getUser(conn))
  ELSE IF getClient(conn) # "ok" THEN Throw(R, getClient(conn))
  ELSE R

\* ------------------------------------------------------------- actions
\* No call of _publishLobbyDiff is taken alone.
NoDiffCall == [made |-> FALSE, oldLobby |-> EmptyLobby, newLobby |-> EmptyLobby,
               moves |-> <<>>, deletedSlotIndex |-> 0, events |-> <<>>]

\* The registry after construction.
Constructed ==
  /\ lobbies = EmptyMap
  /\ lobbyClients = EmptyMap
  /\ lobbyBannedUsers = EmptyMap
  /\ lobbyCountdowns = EmptyMap
  /\ loadingLobbies = EmptyMap
  /\ activeClients = {}
  /\ subscriptions = {}
  /\ handshakes = EmptyMap
  /\ suspended = {}
  /\ subscribedSockets = EmptyMap
  /\ listChannel = {}
  /\ closeListeners = {}
  /\ openSockets = Sockets

Init == Constructed /\ diffCall = NoDiffCall /\ parties = EmptyMap

\* Slot ids are opaque (cuid): the registry compares them for equality only,
\* within one lobby value or between a lobby value and its successor. The
\* tables keep each lobby under the renaming that numbers its slots in
\* team-then-slot order.
Canon(lobby) ==
  LET Renumber(q) ==
        LET Pos(id) == LET At(hit) == IF hit = {} THEN 0 ELSE Min(hit)
                       IN At({i \in 1..Len(q) : q[i][3].id = id})
        IN [lobby EXCEPT !.host = Pos(@),
                         !.teams = [t \in 1..Len(lobby.teams) |->
                                      [s \in 1..Len(lobby.teams[t]) |->
                                         [lobby.teams[t][s] EXCEPT !.id = Pos(@)]]]]
  IN Renumber(getLobbySlotsWithIndexes(lobby))

CanonAll(m) == [n \in DOMAIN m |-> Canon(m[n])]

\* A call that returned while its loader is still pending: of its closures
\* only onGameSetup and onRoutesSet can still run, and they read the name and
\* the humans of the snapshot and nothing else of the record.
Returned(hs) ==
  [lobby |-> [hs.lobby EXCEPT !.summary = toSummaryJson(EmptyLobby)],
   timer |-> "done", loader |-> hs.loader, setupDone |-> hs.setupDone,
   allowTimer |-> "done", outcome |-> "returned", gameStarted |-> FALSE,
   thrown |-> "ok"]

\* The handshakes one of whose closures can still run.
Live(hss) ==
  [h \in {x \in DOMAIN hss : hss[x].outcome = "pending" \/ hss[x].loader = "pending"} |->
     IF hss[h].outcome = "pending" THEN hss[h] ELSE Returned(hss[h])]

\* The registry tables of R as the state keeps them.
Tables(R) ==
  <<CanonAll(R.lobbies), R.lobbyClients, R.lobbyBannedUsers, R.lobbyCountdowns,
    R.loadingLobbies, R.activeClients, R.subscriptions, Live(R.handshakes),
    R.subscribedSockets, R.listChannel, R.closeListeners, R.openSockets>>

Changed(R) == Tables(R) # Tables(Cur)

Commit(R) ==
  /\ lobbies' = CanonAll(R.lobbies)
  /\ lobbyClients' = R.lobbyClients
  /\ lobbyBannedUsers' = R.lobbyBannedUsers
  /\ lobbyCountdowns' = R.lobbyCountdowns
  /\ loadingLobbies' = R.loadingLobbies
  /\ activeClients' = R.activeClients
  /\ subscriptions' = R.subscriptions
  /\ handshakes' = Live(R.handshakes)
  /\ subscribedSockets' = R.subscribedSockets
  /\ listChannel' = R.listChannel
  /\ closeListeners' = R.closeListeners
  /\ openSockets' = R.openSockets
  /\ UNCHANGED <<diffCall, parties>>

\* A handler ran to its end (or threw), then the settled awaits resumed. What
\* it published is R.out and what it threw R.err; the tables keep neither.
Done(R) == Commit(Settle(R))

\* The slot ids a request may carry: those of a lobby's slots, and 0 for an
\* id no slot has.
SlotIdInputs == 0..MapSlots

\* The lengths of the texts a chat request may carry, around the cut.
ChatLengthInputs == {1, MaxChatLength + 1}

\* The sub-types a create request may carry: 0 is out of range for topVBottom.
SubTypeInputs == 0..(MapSlots - 1)

CanSuspendWithin(limit, u) ==
  /\ Cardinality(suspended) < limit
  /\ \A p \in suspended : p.user # u

CanSuspend(u) == CanSuspendWithin(MaxSuspended, u)

\* create up to its await of getMapInfo, for a request whose map has numSlots
\* slots (NoMap: getMapInfo will find no map).
CreateBeginOn(limit, numSlots, u, name, gameType, gameSubType) ==
  IF MapHas(lobbies, name)
  THEN UNCHANGED vars
  ELSE /\ CanSuspendWithin(limit, u)
       /\ suspended' = suspended \cup
            {[cmd |-> "create", user |-> u, name |-> name, gameType |-> gameType,
              gameSubType |-> gameSubType, numSlots |-> numSlots,
              lobby |-> EmptyLobby, updated |-> EmptyLobby]}
       /\ UNCHANGED <<lobbies, lobbyClients, lobbyBannedUsers, lobbyCountdowns,
                      loadingLobbies, activeClients, subscriptions, handshakes,
                      subscribedSockets, listChannel, closeListeners, openSockets,
                      diffCall, parties>>

CreateBeginWithin(limit, u, name, gameType, gameSubType) ==
  CreateBeginOn(limit, MapSlots, u, name, gameType, gameSubType)

CreateBegin(u, name, gameType, gameSubType) ==
  CreateBeginWithin(MaxSuspended, u, name, gameType, gameSubType)

\* create from its await on, registering the client whatever the activity
\* registry answers.
createResume_SkipsRegistry(R, p) ==
  IF p.numSlots = NoMap THEN Throw(R, "BadRequest")
  ELSE IF ~checkSubTypeValidity(p.gameType, p.gameSubType, p.numSlots)
  THEN Throw(R, "BadRequest")
  ELSE LET lobby == LobbiesCreate(p.name, p.gameType, p.gameSubType,
                                  lobbyNumSlots(p.gameType, p.numSlots), p.user)
           R1 == [R EXCEPT !.activeClients = @ \cup {p.user},
                           !.lobbies = MapSet(@, p.name, lobby),
                           !.lobbyClients = MapSet(@, p.user, p.name)]
           R2 == subscribeClientToLobby(R1, lobby, p.user)
       IN publishListChange(R2, "add", toSummaryJson(lobby))

\* create from getMapInfo's answer to its end.
createResume(R, p) ==
  IF p.numSlots = NoMap THEN Throw(R, "BadRequest")
  ELSE IF ~checkSubTypeValidity(p.gameType, p.gameSubType, p.numSlots)
  THEN Throw(R, "BadRequest")
  ELSE LET lobby == LobbiesCreate(p.name, p.gameType, p.gameSubType,
                                  lobbyNumSlots(p.gameType, p.numSlots), p.user)
       IN IF p.user \in R.activeClients THEN Throw(R, "Conflict")
          ELSE LET R1 == [R EXCEPT !.activeClients = @ \cup {p.user},
                                   !.lobbies = MapSet(@, p.name, lobby),
                                   !.lobbyClients = MapSet(@, p.user, p.name)]
                   R2 == subscribeClientToLobby(R1, lobby, p.user)
               IN publishListChange(R2, "add", toSummaryJson(lobby))

CreateEnd(p) ==
  /\ p.cmd = "create"
  /\ Done(createResume(Cur, p))
  /\ suspended' = suspended \ {p}

\* The checks of join without the ban list.
joinChecks_IgnoresBans(R, u, name) ==
  IF ~MapHas(R.lobbies, name) THEN "NotFound"
  ELSE LET lobby == R.lobbies[name]
       IN IF ensureLobbyNotTransient(R, lobby) # "ok" THEN "Conflict"
          ELSE IF findAvailableSlot(lobby) = NotFound THEN "Conflict"
          ELSE IF u \in R.activeClients THEN "Conflict"
          ELSE "ok"

\* The checks of join without the search for an open slot.
joinChecks_IgnoresFull(R, u, name) ==
  IF ~MapHas(R.lobbies, name) THEN "NotFound"
  ELSE LET lobby == R.lobbies[name]
       IN IF ensureLobbyNotTransient(R, lobby) # "ok" THEN "Conflict"
          ELSE IF MapHas(R.lobbyBannedUsers, name) /\ u \in R.lobbyBannedUsers[name]
               THEN "Conflict"
          ELSE IF u \in R.activeClients THEN "Conflict"
          ELSE "ok"

\* The checks join makes before it registers the client and awaits
\* getMapInfo: the error it throws, or "ok".
joinChecks(R, u, name) ==
  IF ~MapHas(R.lobbies, name) THEN "NotFound"
  ELSE LET lobby == R.lobbies[name]
       IN IF ensureLobbyNotTransient(R, lobby) # "ok" THEN "Conflict"
          ELSE IF MapHas(R.lobbyBannedUsers, name) /\ u \in R.lobbyBannedUsers[name]
               THEN "Conflict"
          ELSE IF findAvailableSlot(lobby) = NotFound THEN "Conflict"
          ELSE IF u \in R.activeClients THEN "Conflict"
          ELSE "ok"

JoinBeginWithin(limit, u, name) ==
  IF joinChecks(Cur, u, name) # "ok"
  THEN UNCHANGED vars
  ELSE LET lobby == lobbies[name]
           av == findAvailableSlot(lobby)
           player == createHuman(FreshId(SlotIds(lobby)), u)
           updated == addPlayer(lobby, av[1], av[2], player)
       IN /\ CanSuspendWithin(limit, u)
          /\ suspended' = suspended \cup
               {[cmd |-> "join", user |-> u, name |-> name, gameType |-> "",
                 gameSubType |-> 0, numSlots |-> 0, lobby |-> lobby, updated |-> updated]}
          /\ activeClients' = activeClients \cup {u}
          /\ UNCHANGED <<lobbies, lobbyClients, lobbyBannedUsers, lobbyCountdowns,
                         loadingLobbies, subscriptions, handshakes,
                         subscribedSockets, listChannel, closeListeners, openSockets,
                         diffCall, parties>>

JoinBegin(u, name) == JoinBeginWithin(MaxSuspended, u, name)

\* join from getMapInfo's answer to its end.
joinResume(R, p) ==
  LET R1 == [R EXCEPT !.lobbies = MapSet(@, p.name, p.updated),
                      !.lobbyClients = MapSet(@, p.user, p.name)]
      R2 == publishLobbyDiff(R1, p.lobby, p.updated, "", "", 0)
  IN subscribeClientToLobby(R2, p.lobby, p.user)

JoinEnd(p) ==
  /\ p.cmd = "join"
  /\ Done(joinResume(Cur, p))
  /\ suspended' = suspended \ {p}

\* A command that is not suspended in between.
Command(R) == Done(R) /\ UNCHANGED suspended

AddComputer(u, slotId) == Command(addComputer(Cur, u, slotId))
ChangeSlot(u, slotId) == Command(changeSlot(Cur, u, slotId))
SetRace(u, id, race) == Command(setRace(Cur, u, id, race))
OpenSlot(u, slotId) == Command(openSlot(Cur, u, slotId))
CloseSlot(u, slotId) == Command(closeSlot(Cur, u, slotId))
KickPlayer(u, slotId) == Command(kickPlayer(Cur, u, slotId))
BanPlayer(u, slotId) == Command(banPlayer(Cur, u, slotId))
MakeObserver(u, slotId) == Command(makeObserver(Cur, u, slotId))
RemoveObserver(u, slotId) == Command(removeObserver(Cur, u, slotId))
Leave(u) == Command(leave(Cur, u))
SendChat(u, textLength) == Command(sendChat(Cur, u, textLength))

\* A socket subscribes to the lobby list, with MaxSubscribes calls open at most.
SubscribeCall(socket) ==
  /\ socket \in openSockets
  /\ IF MapHas(subscribedSockets, socket)
     THEN subscribedSockets[socket] < MaxSubscribes ELSE TRUE
  /\ Command(subscribe(Cur, socket))

UnsubscribeCall(socket) == socket \in openSockets /\ Command(unsubscribe(Cur, socket))

SocketClose(socket) == socket \in openSockets /\ Command(onSocketClose(Cur, socket))

ClientClose(u, name) ==
  /\ <<u, <<"lobbies", name>>>> \in subscriptions
  /\ Command(onClientClose(Cur, u, name))

StartCountdown(u) ==
  /\ \/ Cardinality(DOMAIN handshakes) < MaxHandshakes
     \/ startCountdown(Cur, u).err # "ok"
  /\ Command(startCountdown(Cur, u))

TimerFire(h) == handshakes[h].timer = "pending" /\ Command(timerFire(Cur, h))

AllowStartFire(h) == handshakes[h].allowTimer = "armed" /\ Command(allowStartFire(Cur, h))

\* The loader calls onGameSetup, once, before it completes.
LoaderSetup(h) ==
  /\ handshakes[h].loader = "pending"
  /\ ~handshakes[h].setupDone
  /\ Command(loaderSetup(Cur, h))

\* The loader calls onRoutesSet for one player of the game it set up.
LoaderRoutes(h, playerName) ==
  /\ handshakes[h].loader = "pending"
  /\ handshakes[h].setupDone
  /\ playerName \in SeqRange(handshakes[h].lobby.players)
  /\ Command(loaderRoutes(Cur, h, playerName))

\* The loader's promise resolves; the game was set up before it loaded.
LoaderResolve(h) ==
  /\ handshakes[h].loader = "pending"
  /\ handshakes[h].setupDone
  /\ Command(loaderResolve(Cur, h))

\* The loader's promise rejects.
LoaderReject(h) == handshakes[h].loader = "pending" /\ Command(loaderReject(Cur, h))

\* A connection asks for the phase of a lobby name: the call throws or
\* returns its reply, and the registry is as it was.
GetLobbyState(conn, lobbyName) ==
  Command(Throw(Cur, getLobbyState(Cur, conn, lobbyName).err))

Next ==
  \/ \E u \in Users, name \in Names, st \in SubTypeInputs :
       CreateBegin(u, name, "topVBottom", st)
  \/ \E p \in suspended : CreateEnd(p)
  \/ \E u \in Users, name \in Names : JoinBegin(u, name)
  \/ \E p \in suspended : JoinEnd(p)
  \/ \E u \in Users, id \in SlotIdInputs : AddComputer(u, id)
  \/ \E u \in Users, id \in SlotIdInputs : ChangeSlot(u, id)
  \/ \E u \in Users, id \in SlotIdInputs, race \in Races : SetRace(u, id, race)
  \/ \E u \in Users, id \in SlotIdInputs : OpenSlot(u, id)
  \/ \E u \in Users, id \in SlotIdInputs : CloseSlot(u, id)
  \/ \E u \in Users, id \in SlotIdInputs : KickPlayer(u, id)
  \/ \E u \in Users, id \in SlotIdInputs : BanPlayer(u, id)
  \/ \E u \in Users, id \in SlotIdInputs : MakeObserver(u, id)
  \/ \E u \in Users, id \in SlotIdInputs : RemoveObserver(u, id)
  \/ \E u \in Users : Leave(u)
  \/ \E u \in Users, len \in ChatLengthInputs : SendChat(u, len)
  \/ \E u \in Users, name \in Names : ClientClose(u, name)
  \/ \E u \in Users : StartCountdown(u)
  \/ \E h \in DOMAIN handshakes : TimerFire(h)
  \/ \E h \in DOMAIN handshakes : AllowStartFire(h)
  \/ \E h \in DOMAIN handshakes : LoaderSetup(h)
  \/ \E h \in DOMAIN handshakes, u \in Users : LoaderRoutes(h, u)
  \/ \E h \in DOMAIN handshakes : LoaderResolve(h)
  \/ \E h \in DOMAIN handshakes : LoaderReject(h)
  \/ \E conn \in Connections, name \in Names : GetLobbyState(conn, name)

Spec == Init /\ [][Next]_vars

\* The registry under create, join and leave alone, with up to MaxOverlap
\* calls suspended in getMapInfo at once.
OverlapNext ==
  \/ \E u \in Users, name \in Names, st \in SubTypeInputs :
       CreateBeginWithin(MaxOverlap, u, name, "topVBottom", st)
  \/ \E p \in suspended : CreateEnd(p)
  \/ \E u \in Users, name \in Names : JoinBeginWithin(MaxOverlap, u, name)
  \/ \E p \in suspended : JoinEnd(p)
  \/ \E u \in Users : Leave(u)

OverlapSpec == Init /\ [][OverlapNext]_vars

\* The lobby list and its subscribers: sockets subscribe, unsubscribe and
\* close while lobbies are created and left.
ListNext ==
  \/ \E socket \in Sockets : SubscribeCall(socket)
  \/ \E socket \in Sockets : UnsubscribeCall(socket)
  \/ \E socket \in Sockets : SocketClose(socket)
  \/ \E u \in Users, name \in Names, st \in SubTypeInputs :
       CreateBegin(u, name, "topVBottom", st)
  \/ \E p \in suspended : CreateEnd(p)
  \/ \E u \in Users : Leave(u)

ListSpec == Init /\ [][ListNext]_vars

\* The slot ids and sub-types a request about a lobby of the larger map may
\* carry.
WideSlotIdInputs == 0..WideMapSlots
WideSubTypeInputs == 0..(WideMapSlots - 1)

\* The registry with every lobby created on the larger map, whose teams hold
\* more than one slot: the lobby fills, takes computers, counts down and
\* loads, and its members leave.
TeamNext ==
  \/ \E u \in Users, name \in Names, st \in WideSubTypeInputs :
       CreateBeginOn(MaxSuspended, WideMapSlots, u, name, "topVBottom", st)
  \/ \E p \in suspended : CreateEnd(p)
  \/ \E u \in Users, name \in Names : JoinBegin(u, name)
  \/ \E p \in suspended : JoinEnd(p)
  \/ \E u \in Users, id \in WideSlotIdInputs : AddComputer(u, id)
  \/ \E u \in Users, id \in WideSlotIdInputs : ChangeSlot(u, id)
  \/ \E u \in Users : Leave(u)
  \/ \E u \in Users : StartCountdown(u)
  \/ \E h \in DOMAIN handshakes : TimerFire(h)
  \/ \E h \in DOMAIN handshakes : LoaderSetup(h)
  \/ \E h \in DOMAIN handshakes : LoaderReject(h)

TeamSpec == Init /\ [][TeamNext]_vars

\* Lobbies.makeObserver: the slot at the coordinates leaves its team and joins
\* the observer team, the last one, under the same id.
LobbiesMakeObserver(lobby, t, s) ==
  LET Moved(team, slot, obs) ==
        [lobby EXCEPT !.teams =
           [i \in 1..Len(lobby.teams) |->
              IF i = t THEN SubSeq(team, 1, s - 1) \o SubSeq(team, s + 1, Len(team))
              ELSE IF i = obs THEN Append(lobby.teams[i], slot)
              ELSE lobby.teams[i]]]
  IN Moved(lobby.teams[t], lobby.teams[t][s], Len(lobby.teams))

\* The lobbies of two playable teams of DiffTeamSize slots and an observer
\* team, which create would build if it allowed observers: the host in the
\* first slot, every other slot open or a computer.
ObserverLobbies ==
  LET Make(kind) ==
        LET Slot(id) == IF id = 1 THEN createHuman(1, UserNames[1])
                        ELSE IF kind[id] = "open" THEN createOpenSlot(id)
                        ELSE createComputer(id)
        IN [name |-> LobbyNames[1], gameType |-> "topVBottom",
            gameSubType |-> DiffTeamSize, host |-> 1,
            teams |-> <<[s \in 1..DiffTeamSize |-> Slot(s)],
                        [s \in 1..DiffTeamSize |-> Slot(DiffTeamSize + s)],
                        <<>>>>]
  IN {Make(kind) : kind \in [2..(2 * DiffTeamSize) -> {"open", "computer"}]}

\* The slots of the playable teams a makeObserver call can move: any but the
\* host's.
Movable(lobby) ==
  {c \in (1..2) \X (1..DiffTeamSize) :
     c[2] <= Len(lobby.teams[c[1]]) /\ lobby.teams[c[1]][c[2]].id # lobby.host}

\* The lobby after the moves, each at the coordinates it names.
RECURSIVE AfterMoves(_, _)
AfterMoves(lobby, moves) ==
  IF moves = <<>> THEN lobby
  ELSE AfterMoves(LobbiesMakeObserver(lobby, Head(moves)[1], Head(moves)[2]), Tail(moves))

\* The sequences of up to n moves the lobby admits.
RECURSIVE MoveSeqs(_, _)
MoveSeqs(lobby, n) ==
  IF n = 0 THEN {<<>>}
  ELSE {<<>>} \cup
       UNION {{<<c>> \o rest : rest \in MoveSeqs(LobbiesMakeObserver(lobby, c[1], c[2]), n - 1)} :
                c \in Movable(lobby)}

\* The calls of _publishLobbyDiff on an old snapshot and the one MaxMoves or
\* fewer moves later, with the hint makeObserver passes: the slot index of
\* the (last) move.
DiffCallInputs ==
  UNION {{[made |-> FALSE, oldLobby |-> old, newLobby |-> AfterMoves(old, moves),
           moves |-> moves, deletedSlotIndex |-> moves[Len(moves)][2], events |-> <<>>] :
            moves \in MoveSeqs(old, MaxMoves) \ {<<>>}} :
           old \in ObserverLobbies}

DiffInit == Constructed /\ diffCall \in DiffCallInputs /\ parties = EmptyMap

\* _publishLobbyDiff on the arguments of diffCall; the events are those of the
\* diff message it published.
PublishAlone ==
  LET Sent(R) == {i \in 1..Len(R.out) : R.out[i].type = "diff"}
      Events(R) == IF Sent(R) = {} THEN <<>> ELSE R.out[Min(Sent(R))].arg
  IN /\ ~diffCall.made
     /\ diffCall' = [diffCall EXCEPT
                       !.made = TRUE,
                       !.events = Events(publishLobbyDiff(Cur, diffCall.oldLobby,
                                                          diffCall.newLobby, "", "",
                                                          diffCall.deletedSlotIndex))]
     /\ UNCHANGED <<lobbies, lobbyClients, lobbyBannedUsers, lobbyCountdowns,
                    loadingLobbies, activeClients, subscriptions, handshakes, suspended,
                    subscribedSockets, listChannel, closeListeners, openSockets, parties>>

DiffNext == PublishAlone

\* _publishLobbyDiff as a function of its arguments.
DiffSpec == DiffInit /\ [][DiffNext]_vars

\* The game types, the sub-types and the map sizes a create request may carry;
\* a missing sub-type is 0, the default of checkSubTypeValidity.
AllGameTypes == {"melee", "oneVOne", "topVBottom", "teamMelee", "teamFfa"}
AllSubTypeInputs == 0..MaxSubType
MapSlotInputs == {NoMap, MapSlots, WideMapSlots}

\* The registry under create requests of every game type on maps of several
\* sizes; the creator leaves again.
CreateNext ==
  \/ \E u \in Users, name \in Names, gameType \in AllGameTypes,
        st \in AllSubTypeInputs, mapSlots \in MapSlotInputs :
       CreateBeginOn(MaxSuspended, mapSlots, u, name, gameType, st)
  \/ \E p \in suspended : CreateEnd(p)
  \/ \E u \in Users : Leave(u)

CreateSpec == Init /\ [][CreateNext]_vars

\* ------------------------------------------------------ PartyService
\* The service as its tests fix it: a party record is [leader, members,
\* invites], users are their ids, and a call returns the error it threw
\* ("ok": none) with the parties it left.
PartyUsers == 1..NumPartyUsers
PartyCallers == 1..NumPartyCallers
\* The ids a call may name; the last is never given to a party.
PartyIds == 1..(MaxParties + 1)
\* A party with this many members accepts no more.
MaxPartySize == 8

PartyThrow(ps, e) == [err |-> e, parties |-> ps]
PartyOk(ps) == [err |-> "ok", parties |-> ps]

\* The party the user is a member of; 0 if none.
partyOf(ps, user) ==
  IF \E id \in DOMAIN ps : user \in ps[id].members
  THEN CHOOSE id \in DOMAIN ps : user \in ps[id].members
  ELSE 0

\* invite adding the target whoever invites.
invite_ByAnyMember(ps, leader, invitedUser) ==
  IF leader = invitedUser THEN PartyThrow(ps, "Can't invite yourself to the party")
  ELSE IF partyOf(ps, leader) # 0
  THEN LET id == partyOf(ps, leader)
       IN IF invitedUser \in ps[id].invites
          THEN PartyThrow(ps, "An invite already exists for this user")
          ELSE IF invitedUser \in ps[id].members
          THEN PartyThrow(ps, "This user is already a member of this party")
          ELSE PartyOk([ps EXCEPT ![id].invites = @ \cup {invitedUser}])
  ELSE PartyOk(MapSet(ps, FreshId(DOMAIN ps),
                      [leader |-> leader, members |-> {leader}, invites |-> {invitedUser}]))

\* invite(leader, leaderClientId, invitedUser)
invite(ps, leader, invitedUser) ==
  IF leader = invitedUser THEN PartyThrow(ps, "Can't invite yourself to the party")
  ELSE IF partyOf(ps, leader) # 0
  THEN LET id == partyOf(ps, leader)
       IN IF ps[id].leader # leader
          THEN PartyThrow(ps, "Only party leader can invite people")
          ELSE IF invitedUser \in ps[id].invites
          THEN PartyThrow(ps, "An invite already exists for this user")
          ELSE IF invitedUser \in ps[id].members
          THEN PartyThrow(ps, "This user is already a member of this party")
          ELSE PartyOk([ps EXCEPT ![id].invites = @ \cup {invitedUser}])
  ELSE PartyOk(MapSet(ps, FreshId(DOMAIN ps),
                      [leader |-> leader, members |-> {leader}, invites |-> {invitedUser}]))

\* acceptInvite without the limit on the members.
acceptInvite_NoLimit(ps, partyId, user) ==
  IF ~MapHas(ps, partyId) THEN PartyThrow(ps, "Party not found")
  ELSE IF user \notin ps[partyId].invites
  THEN PartyThrow(ps, "Can't join party without an invite")
  ELSE PartyOk([ps EXCEPT ![partyId].invites = @ \ {user},
                          ![partyId].members = @ \cup {user}])

\* acceptInvite(partyId, user, clientId)
acceptInvite(ps, partyId, user) ==
  IF ~MapHas(ps, partyId) THEN PartyThrow(ps, "Party not found")
  ELSE IF user \notin ps[partyId].invites
  THEN PartyThrow(ps, "Can't join party without an invite")
  ELSE IF Cardinality(ps[partyId].members) >= MaxPartySize
  THEN PartyThrow(ps, "Party is full")
  ELSE PartyOk([ps EXCEPT ![partyId].invites = @ \ {user},
                          ![partyId].members = @ \cup {user}])

\* decline(partyId, target)
decline(ps, partyId, target) ==
  IF ~MapHas(ps, partyId) THEN PartyThrow(ps, "Party not found")
  ELSE IF target \notin ps[partyId].invites
  THEN PartyThrow(ps, "Can't decline a party invitation without an invite")
  ELSE PartyOk([ps EXCEPT ![partyId].invites = @ \ {target}])

\* removeInvite open to every caller.
removeInvite_ByAnyone(ps, partyId, removingUser, target) ==
  IF ~MapHas(ps, partyId) THEN PartyThrow(ps, "Party not found")
  ELSE IF target \notin ps[partyId].invites
  THEN PartyThrow(ps, "Can't remove invite for a user that wasn't invited")
  ELSE PartyOk([ps EXCEPT ![partyId].invites = @ \ {target}])

\* removeInvite(partyId, removingUser, target)
removeInvite(ps, partyId, removingUser, target) ==
  IF ~MapHas(ps, partyId) THEN PartyThrow(ps, "Party not found")
  ELSE IF ps[partyId].leader # removingUser
  THEN PartyThrow(ps, "Only party leaders can remove invites to other people")
  ELSE IF target \notin ps[partyId].invites
  THEN PartyThrow(ps, "Can't remove invite for a user that wasn't invited")
  ELSE PartyOk([ps EXCEPT ![partyId].invites = @ \ {target}])

\* A call of the service ends: the parties are as it left them.
PartyCall(r) ==
  /\ parties' = r.parties
  /\ UNCHANGED <<lobbies, lobbyClients, lobbyBannedUsers, lobbyCountdowns,
                 loadingLobbies, activeClients, subscriptions, handshakes, suspended,
                 subscribedSockets, listChannel, closeListeners, openSockets, diffCall>>

\* A caller without a party founds one while MaxParties allows.
Invite(leader, invitedUser) ==
  /\ \/ partyOf(parties, leader) # 0
     \/ leader = invitedUser
     \/ Cardinality(DOMAIN parties) < MaxParties
  /\ PartyCall(invite(parties, leader, invitedUser))

\* A user accepts while in no party.
AcceptInvite(partyId, user) ==
  /\ partyOf(parties, user) = 0
  /\ PartyCall(acceptInvite(parties, partyId, user))

Decline(partyId, target) == PartyCall(decline(parties, partyId, target))

RemoveInvite(partyId, removingUser, target) ==
  PartyCall(removeInvite(parties, partyId, removingUser, target))

PartyNext ==
  \/ \E leader \in PartyCallers, invitedUser \in PartyUsers : Invite(leader, invitedUser)
  \/ \E partyId \in PartyIds, user \in PartyUsers : AcceptInvite(partyId, user)
  \/ \E partyId \in PartyIds, target \in PartyUsers : Decline(partyId, target)
  \/ \E partyId \in PartyIds, removingUser \in PartyCallers, target \in PartyUsers :
       RemoveInvite(partyId, removingUser, target)

PartySpec == Init /\ [][PartyNext]_vars

\* ------------------------------------------------- vocabulary of the claims
Pub(R, path, type) == \E i \in 1..Len(R.out) : R.out[i].path = path /\ R.out[i].type = type

PubType(R, type) == \E i \in 1..Len(R.out) : R.out[i].type = type

Member(u) == MapHas(lobbyClients, u) /\ MapHas(lobbies, lobbyClients[u])

IsHost(lobby, u) ==
  LET p == findSlotByName(lobby, u)[3] IN p # NoSlot /\ p.id = lobby.host

CountingDown(name) == MapHas(lobbyCountdowns, name)
Loading(name) == MapHas(loadingLobbies, name)
Transient(name) == CountingDown(name) \/ Loading(name)

\* The call threw and left every table as it was, having published nothing.
Rejected(R) == R.err # "ok" /\ [R EXCEPT !.diffs = <<>>] = Throw(Cur, R.err)

\* R as the next command finds it.
Fresh(R) == [R EXCEPT !.out = <<>>, !.diffs = <<>>, !.err = "ok"]

\* What each command, timer and loader event enabled in the current state
\* leaves behind, before and after the settled awaits have resumed.
RawStepsOver(slotIds) ==
  UNION {{addComputer(Cur, u, id), changeSlot(Cur, u, id), openSlot(Cur, u, id),
          closeSlot(Cur, u, id), kickPlayer(Cur, u, id), banPlayer(Cur, u, id),
          makeObserver(Cur, u, id), removeObserver(Cur, u, id)} :
           u \in Users, id \in slotIds}
  \cup {setRace(Cur, u, id, race) : u \in Users, id \in slotIds, race \in Races}
  \cup {leave(Cur, u) : u \in Users}
  \cup {startCountdown(Cur, u) : u \in Users}
  \cup {onClientClose(Cur, x[1], x[2]) :
          x \in {y \in Users \X Names : <<y[1], <<"lobbies", y[2]>>>> \in subscriptions}}
  \cup {createResume(Cur, p) : p \in {q \in suspended : q.cmd = "create"}}
  \cup {joinResume(Cur, p) : p \in {q \in suspended : q.cmd = "join"}}
  \cup {timerFire(Cur, h) : h \in {x \in DOMAIN handshakes : handshakes[x].timer = "pending"}}
  \cup {allowStartFire(Cur, h) :
          h \in {x \in DOMAIN handshakes : handshakes[x].allowTimer = "armed"}}
  \cup {loaderSetup(Cur, h) :
          h \in {x \in DOMAIN handshakes :
                   handshakes[x].loader = "pending" /\ ~handshakes[x].setupDone}}
  \cup {loaderResolve(Cur, h) :
          h \in {x \in DOMAIN handshakes :
                   handshakes[x].loader = "pending" /\ handshakes[x].setupDone}}
  \cup {loaderReject(Cur, h) :
          h \in {x \in DOMAIN handshakes : handshakes[x].loader = "pending"}}

RawSteps == RawStepsOver(SlotIdInputs)

Outcomes == {Settle(R) : R \in RawSteps}

\* The same for requests that may name every slot of a lobby of the larger map.
WideOutcomes == {Settle(R) : R \in RawStepsOver(WideSlotIdInputs)}

\* The calls that returned in the step that led to R.
ReturnedIn(R) ==
  {h \in DOMAIN R.handshakes : R.handshakes[h].outcome \in {"started", "rolledBack"}}

\* The startCountdown calls still suspended at their await.
Awaiting == {h \in DOMAIN handshakes : handshakes[h].outcome = "pending"}

\* ---------------------------------------------------------------- C1
\* C1 as stated: while its lobby is counting down or loading, no slot / team
\* command of a member (setRace among them) returns normally or changes the
\* lobby, and no join of the lobby passes its checks.
C1_AllMutationsRejectedWhileTransient ==
  /\ \A u \in Users :
       (Member(u) /\ Transient(lobbyClients[u])) =>
          \A id \in SlotIdInputs :
             /\ \A R \in {addComputer(Cur, u, id), changeSlot(Cur, u, id),
                          openSlot(Cur, u, id), closeSlot(Cur, u, id),
                          makeObserver(Cur, u, id), removeObserver(Cur, u, id)} :
                   R.err # "ok" /\ R.lobbies = lobbies
             /\ \A race \in Races :
                   LET R == setRace(Cur, u, id, race)
                   IN R.err # "ok" /\ R.lobbies = lobbies
  /\ \A u \in Users, name \in Names :
       (MapHas(lobbies, name) /\ Transient(name)) => joinChecks(Cur, u, name) # "ok"

\* C1, amended: while a lobby is counting down or loading, join, addComputer,
\* changeSlot, openSlot, closeSlot, makeObserver and removeObserver fail and
\* change nothing, with Conflict whenever the caller passes the checks that
\* come before the state check (the host check of the host-only commands);
\* setRace fails with Conflict only while the lobby is loading: during a
\* countdown a member's setRace on its own slot is accepted and sets the race.
C1_MutationsRejectedExceptRaceInCountdown ==
  /\ \A u \in Users :
       (Member(u) /\ Transient(lobbyClients[u])) =>
          LET lobby == LobbyOf(Cur, u)
              own == findSlotByName(lobby, u)[3]
          IN /\ \A id \in SlotIdInputs :
                  /\ \A R \in {addComputer(Cur, u, id), openSlot(Cur, u, id),
                               closeSlot(Cur, u, id), makeObserver(Cur, u, id),
                               removeObserver(Cur, u, id)} :
                        Rejected(R) /\ (IsHost(lobby, u) => R.err = "Conflict")
                  /\ Rejected(changeSlot(Cur, u, id))
                  /\ changeSlot(Cur, u, id).err = "Conflict"
                  /\ \A race \in Races :
                        Loading(lobby.name) =>
                           /\ Rejected(setRace(Cur, u, id, race))
                           /\ setRace(Cur, u, id, race).err = "Conflict"
             /\ (~Loading(lobby.name) /\ own # NoSlot) =>
                  \A race \in Races :
                     LET R == setRace(Cur, u, own.id, race)
                     IN /\ R.err = "ok"
                        /\ findSlotById(R.lobbies[lobby.name], own.id)[3].race = race
  /\ \A u \in Users, name \in Names :
       (MapHas(lobbies, name) /\ Transient(name)) => joinChecks(Cur, u, name) = "Conflict"

\* The host of a lobby that is counting down: addComputer is rejected with
\* Conflict and the host's setRace to another race is accepted.
C1_Witness ==
  \E u \in Users :
     /\ Member(u)
     /\ CountingDown(lobbyClients[u])
     /\ ~Loading(lobbyClients[u])
     /\ IsHost(LobbyOf(Cur, u), u)
     /\ \E id \in SlotIdInputs : addComputer(Cur, u, id).err = "Conflict"
     /\ LET own == findSlotByName(LobbyOf(Cur, u), u)[3]
        IN own.race = "r" /\ setRace(Cur, u, own.id, "z").lobbies # lobbies

\* ---------------------------------------------------------------- C2
\* C2 as stated: while the lobby is counting down or loading, a member's leave
\* and the host's kickPlayer and banPlayer of another human are accepted and
\* leave the lobby neither counting down nor loading.
C2_RemovalsAcceptedWhileTransient ==
  \A u \in Users :
     (Member(u) /\ Transient(lobbyClients[u]) /\ u \in activeClients) =>
        LET lobby == LobbyOf(Cur, u)
            Settles(R) == /\ R.err = "ok"
                          /\ ~MapHas(Settle(R).lobbyCountdowns, lobby.name)
                          /\ ~MapHas(Settle(R).loadingLobbies, lobby.name)
        IN /\ Settles(leave(Cur, u))
           /\ IsHost(lobby, u) =>
                \A id \in SlotIdInputs :
                   (findSlotById(lobby, id)[3].type = "human"
                    /\ findSlotById(lobby, id)[3].name \in activeClients) =>
                      Settles(kickPlayer(Cur, u, id)) /\ Settles(banPlayer(Cur, u, id))

\* C2, amended: while the lobby is counting down or loading, leave is
\* accepted: the slot found for the leaver is opened (or the lobby deleted),
\* its client association and its activity registration are removed, and so
\* is a countdown record of the lobby.
\* kickPlayer and banPlayer are rejected and change nothing, with Conflict
\* when the caller is the host.
C2_LeaveAcceptedKickBanRejected ==
  \A u \in Users :
     (Member(u) /\ Transient(lobbyClients[u])) =>
        LET lobby == LobbyOf(Cur, u)
            own == findSlotByName(lobby, u)
            R0 == leave(Cur, u)
            R == Settle(R0)
        IN /\ u \in activeClients =>
                /\ R0.err = "ok"
                /\ ~MapHas(R.lobbyClients, u)
                /\ u \notin R.activeClients
                /\ (MapHas(R.lobbies, lobby.name) /\ own # NotFound) =>
                     R.lobbies[lobby.name].teams[own[1]][own[2]].type = "open"
                /\ ~MapHas(R.lobbyCountdowns, lobby.name)
           /\ \A id \in SlotIdInputs :
                 \A K \in {kickPlayer(Cur, u, id), banPlayer(Cur, u, id)} :
                    Rejected(K) /\ (IsHost(lobby, u) => K.err = "Conflict")

\* A lobby that is counting down with two humans in it: the guest's leave is
\* accepted and the host's kick of the guest is rejected with Conflict.
C2_Witness ==
  \E u \in Users, v \in Users :
     /\ u # v
     /\ Member(u) /\ Member(v)
     /\ lobbyClients[u] = lobbyClients[v]
     /\ CountingDown(lobbyClients[u])
     /\ IsHost(LobbyOf(Cur, u), u)
     /\ leave(Cur, v).err = "ok"
     /\ kickPlayer(Cur, u, findSlotByName(LobbyOf(Cur, u), v)[3].id).err = "Conflict"

\* ---------------------------------------------------------------- C3
\* C3: startCountdown throws BadRequest without opposing sides, else
\* Unauthorized for a caller that is not the host, else Conflict for a lobby
\* that is counting down or loading; else it creates the countdown record with
\* its timer pending and its loader invoked and publishes startCountdown and
\* the list delete. A rejected call changes and publishes nothing. Every
\* pending countdown timer is the one its lobby's record holds, so a lobby has
\* one countdown at most.
C3_StartCountdownChecks ==
  /\ \A u \in Users :
       LET R == startCountdown(Cur, u)
       IN /\ R.err # "ok" => Rejected(R)
          /\ Member(u) =>
               LET lobby == LobbyOf(Cur, u)
                   h == FreshId(DOMAIN handshakes)
               IN /\ R.err = IF ~hasOpposingSides(lobby) THEN "BadRequest"
                             ELSE IF findSlotByName(lobby, u)[3] = NoSlot THEN "TypeError"
                             ELSE IF ~IsHost(lobby, u) THEN "Unauthorized"
                             ELSE IF Transient(lobby.name) THEN "Conflict"
                             ELSE "ok"
                  /\ R.err = "ok" =>
                       /\ R.lobbyCountdowns = MapSet(lobbyCountdowns, lobby.name, h)
                       /\ DOMAIN R.handshakes = DOMAIN handshakes \cup {h}
                       /\ R.handshakes[h].timer = "pending"
                       /\ R.handshakes[h].loader = "pending"
                       /\ R.handshakes[h].lobby.name = lobby.name
                       /\ Pub(R, getPath(lobby), "startCountdown")
                       /\ Pub(R, MOUNT_BASE, "delete")
  /\ \A h \in DOMAIN handshakes :
       handshakes[h].timer = "pending" =>
          /\ MapHas(lobbyCountdowns, handshakes[h].lobby.name)
          /\ lobbyCountdowns[handshakes[h].lobby.name] = h
  /\ \A name \in DOMAIN lobbyCountdowns :
       /\ MapHas(handshakes, lobbyCountdowns[name])
       /\ handshakes[lobbyCountdowns[name]].timer = "pending"

\* A lobby with two humans on opposing sides: the host's startCountdown is
\* accepted and the guest's is rejected with Unauthorized.
C3_Witness ==
  \E u \in Users, v \in Users :
     /\ Member(u) /\ Member(v)
     /\ lobbyClients[u] = lobbyClients[v]
     /\ startCountdown(Cur, u).err = "ok"
     /\ startCountdown(Cur, v).err = "Unauthorized"

\* ---------------------------------------------------------------- C4
\* C4: when a member leaves a lobby whose countdown timer is pending, the
\* countdown record is removed, cancelCountdown goes to the lobby channel and
\* an 'add' to the list, and the call that started the countdown ends rolled
\* back with its timer rejected, having published neither allowStart nor
\* gameStarted; a call that returned has no timer left that could publish
\* them later.
C4_LeaveCancelsCountdown ==
  /\ \A u \in Users :
       (Member(u) /\ CountingDown(lobbyClients[u]) /\ u \in activeClients) =>
          LET lobby == LobbyOf(Cur, u)
              h == lobbyCountdowns[lobby.name]
              R0 == leave(Cur, u)
              R == Settle(R0)
          IN /\ R0.err = "ok"
             /\ ~MapHas(R.lobbyCountdowns, lobby.name)
             /\ Pub(R0, getPath(lobby), "cancelCountdown")
             /\ Pub(R0, MOUNT_BASE, "add")
             /\ R.handshakes[h].timer = "rejected"
             /\ R.handshakes[h].outcome = "rolledBack"
             /\ R.handshakes[h].allowTimer = "unset"
             /\ ~R.handshakes[h].gameStarted
             /\ ~PubType(R, "allowStart") /\ ~PubType(R, "gameStarted")
             /\ MapHas(Live(R.handshakes), h) =>
                  Live(R.handshakes)[h].outcome = "returned"
  /\ \A h \in DOMAIN handshakes :
       handshakes[h].outcome = "returned" =>
          handshakes[h].timer # "pending" /\ handshakes[h].allowTimer # "armed"

\* The guest of a lobby that is counting down, whose leave cancels the
\* countdown and keeps the lobby.
C4_Witness ==
  \E u \in Users :
     /\ Member(u)
     /\ CountingDown(lobbyClients[u])
     /\ ~IsHost(LobbyOf(Cur, u), u)
     /\ LET R == Settle(leave(Cur, u))
        IN /\ MapHas(R.lobbies, lobbyClients[u])
           /\ R.handshakes[lobbyCountdowns[lobbyClients[u]]].outcome = "rolledBack"

\* ---------------------------------------------------------------- C5
\* C5: whatever step is taken, a call enters _onGameLoaded only with both its
\* countdown timer and its loader resolved, and gameStarted is published by
\* such a call only; the timer firing with the loader pending, or the loader
\* resolving with the timer pending, starts nothing.
C5_StartNeedsTimerAndLoader ==
  \A R \in Outcomes :
     /\ \A h \in DOMAIN R.handshakes :
          R.handshakes[h].gameStarted =>
             R.handshakes[h].timer = "resolved" /\ R.handshakes[h].loader = "resolved"
     /\ PubType(R, "gameStarted") =>
          \E h \in DOMAIN R.handshakes :
             /\ R.handshakes[h].gameStarted
             /\ Pub(R, getPath(R.handshakes[h].lobby), "gameStarted")

\* The loader has resolved while the countdown timer is pending, and the
\* timer firing starts the game.
C5_Witness ==
  \E h \in Awaiting :
     /\ handshakes[h].loader = "resolved"
     /\ handshakes[h].timer = "pending"
     /\ Settle(timerFire(Cur, h)).handshakes[h].outcome = "started"

\* ---------------------------------------------------------------- C6
\* C6 as stated: every call that ends with the game started has published
\* allowStart, and allowStart is published only by a call whose countdown
\* timer has resolved.
C6_AllowStartBeforeEveryStart ==
  \A R \in Outcomes :
     \A h \in DOMAIN R.handshakes :
        /\ R.handshakes[h].outcome = "started" => R.handshakes[h].allowTimer = "fired"
        /\ R.handshakes[h].allowTimer = "fired" => R.handshakes[h].timer = "resolved"

\* ---------------------------------------------------------------- C7
\* C7 as stated: when a call ends with the game started, the lobby's name is
\* in none of the lobby, countdown and loading tables, no client is associated
\* with it, nobody is subscribed to a path of it, and no human the lobby held
\* keeps its activity registration.
C7_TeardownComplete ==
  \A R \in Outcomes :
     \A h \in DOMAIN R.handshakes :
        R.handshakes[h].outcome = "started" =>
           LET name == R.handshakes[h].lobby.name
           IN /\ ~MapHas(R.lobbies, name)
              /\ ~MapHas(R.lobbyCountdowns, name)
              /\ ~MapHas(R.loadingLobbies, name)
              /\ \A u \in DOMAIN R.lobbyClients : R.lobbyClients[u] # name
              /\ \A x \in R.subscriptions : x[2][2] # name
              /\ MapHas(lobbies, name) =>
                   \A i \in 1..Len(getHumanSlots(lobbies[name])) :
                      getHumanSlots(lobbies[name])[i].name \notin R.activeClients

\* ---------------------------------------------------------------- C8
\* C8: when the loader of a call suspended at its await rejects, before or
\* after the countdown timer fired, the call ends rolled back: the lobby's
\* name is in neither the countdown nor the loading table, so that the host's
\* commands are not rejected for the lobby's state; neither timer of the call
\* is left armed, the call has published no gameStarted and is not kept, and
\* cancelLoading and a list 'add' are published.
C8_LoaderRejectionRollsBack ==
  \A h \in Awaiting :
     handshakes[h].loader = "pending" =>
        LET name == handshakes[h].lobby.name
            R == Settle(loaderReject(Cur, h))
        IN /\ R.handshakes[h].outcome = "rolledBack"
           /\ ~MapHas(R.lobbyCountdowns, name)
           /\ ~MapHas(R.loadingLobbies, name)
           /\ R.handshakes[h].timer # "pending"
           /\ R.handshakes[h].allowTimer # "armed"
           /\ ~R.handshakes[h].gameStarted
           /\ ~PubType(R, "gameStarted") /\ ~PubType(R, "allowStart")
           /\ ~MapHas(Live(R.handshakes), h)
           /\ Pub(R, getPath(handshakes[h].lobby), "cancelLoading")
           /\ Pub(R, MOUNT_BASE, "add")
           /\ \A u \in Users, id \in SlotIdInputs :
                (MapHas(R.lobbyClients, u) /\ R.lobbyClients[u] = name) =>
                   addComputer(Fresh(R), u, id).err # "Conflict"

\* A lobby marked loading after its countdown timer fired, with the grace
\* timer armed, whose loader rejects.
C8_Witness ==
  \E h \in Awaiting :
     /\ handshakes[h].timer = "resolved"
     /\ handshakes[h].allowTimer = "armed"
     /\ handshakes[h].loader = "pending"
     /\ Loading(handshakes[h].lobby.name)
     /\ MapHas(lobbies, handshakes[h].lobby.name)
     /\ Settle(loaderReject(Cur, h)).handshakes[h].outcome = "rolledBack"

\* ---------------------------------------------------------------- C9
\* C9: a startCountdown call that passed its checks ends without throwing,
\* whatever ends it: every call that returns, started or rolled back, throws
\* nothing, and a rolled back one has published cancelLoading and a list
\* 'add'.
C9_HandshakeFailureNotThrown ==
  \A R \in Outcomes :
     \A h \in ReturnedIn(R) :
        /\ R.handshakes[h].thrown = "ok"
        /\ R.handshakes[h].outcome = "rolledBack" =>
             /\ Pub(R, getPath(R.handshakes[h].lobby), "cancelLoading")
             /\ Pub(R, MOUNT_BASE, "add")

\* A call whose countdown is running and whose loader rejects: it ends rolled
\* back without throwing.
C9_Witness ==
  \E h \in Awaiting :
     /\ handshakes[h].timer = "pending"
     /\ handshakes[h].loader = "pending"
     /\ LET R == Settle(loaderReject(Cur, h))
        IN R.handshakes[h].outcome = "rolledBack" /\ R.handshakes[h].thrown = "ok"

\* ---------------------------------------------------------------- C10
\* C10 as stated: when a member of a lobby that is loading leaves, or its
\* client closes, the loading mark of the lobby is removed and cancelLoading
\* goes to the lobby channel.
C10_DepartureCancelsLoading ==
  \A u \in Users :
     (Member(u) /\ Loading(lobbyClients[u]) /\ u \in activeClients) =>
        \A R \in {Settle(leave(Cur, u)), Settle(onClientClose(Cur, u, lobbyClients[u]))} :
           /\ ~MapHas(R.loadingLobbies, lobbyClients[u])
           /\ Pub(R, getPath(LobbyOf(Cur, u)), "cancelLoading")

\* ---------------------------------------------------------------- C11
\* C11 as stated: no lobby name is in the countdown table and in the loading
\* table at once, and a call's onGameSetup has marked its lobby loading only
\* when the call's countdown timer is no longer pending.
C11_LoadingOnlyAfterCountdown ==
  /\ \A name \in Names : ~(CountingDown(name) /\ Loading(name))
  /\ \A h \in Awaiting : handshakes[h].setupDone => handshakes[h].timer # "pending"

\* ---------------------------------------------------------------- C12
\* C12: when a human of a lobby leaves, its client association and activity
\* registration are removed; if it was the lobby's only human, the lobby is
\* deleted from the lobby table, the ban list of its name is discarded and
\* the list channel gets 'delete' with the name; if other humans remain, the
\* lobby is kept, with the leaver's slot open, and no 'delete' is published.
C12_LastLeaveDeletesLobby ==
  \A u \in Users :
     (Member(u) /\ u \in activeClients /\ findSlotByName(LobbyOf(Cur, u), u) # NotFound) =>
        LET lobby == LobbyOf(Cur, u)
            own == findSlotByName(lobby, u)
            R == leave(Cur, u)
            deleted == [path |-> MOUNT_BASE, type |-> "delete", arg |-> lobby.name]
        IN /\ R.err = "ok"
           /\ ~MapHas(R.lobbyClients, u)
           /\ u \notin R.activeClients
           /\ Len(getHumanSlots(lobby)) = 1 =>
                /\ ~MapHas(R.lobbies, lobby.name)
                /\ ~MapHas(R.lobbyBannedUsers, lobby.name)
                /\ deleted \in SeqRange(R.out)
           /\ Len(getHumanSlots(lobby)) > 1 =>
                /\ MapHas(R.lobbies, lobby.name)
                /\ R.lobbies[lobby.name].teams[own[1]][own[2]].type = "open"
                /\ deleted \notin SeqRange(R.out)

\* The only human of a lobby that has a ban list: its leave deletes both.
C12_Witness ==
  \E u \in Users :
     /\ Member(u) /\ u \in activeClients
     /\ Len(getHumanSlots(LobbyOf(Cur, u))) = 1
     /\ findSlotByName(LobbyOf(Cur, u), u) # NotFound
     /\ MapHas(lobbyBannedUsers, lobbyClients[u])
     /\ ~MapHas(leave(Cur, u).lobbies, lobbyClients[u])

\* ---------------------------------------------------------------- C13
\* C13 as stated: every lobby name that has a ban list has a lobby in the
\* lobby table, and a create that commits a lobby under a name leaves no user
\* banned from it.
C13_BanListDiesWithLobby ==
  /\ \A name \in DOMAIN lobbyBannedUsers : MapHas(lobbies, name)
  /\ \A p \in suspended :
       p.cmd = "create" =>
          LET R == createResume(Cur, p)
          IN (R.err = "ok" /\ MapHas(R.lobbyBannedUsers, p.name)) =>
                R.lobbyBannedUsers[p.name] = {}

\* ---------------------------------------------------------------- C14
Banned(R, name) == IF MapHas(R.lobbyBannedUsers, name) THEN R.lobbyBannedUsers[name] ELSE {}

\* C14: the host's ban of a human with a client is accepted, opens the slot
\* of that player, removes its client association and puts its name on the
\* lobby's ban list; a join of an existing lobby by a name on its ban list
\* fails with Conflict; and no step takes a name off the ban list of a lobby
\* that exists before and after the step.
C14_BannedUserCannotRejoin ==
  /\ \A u \in Users, id \in SlotIdInputs :
       (Member(u) /\ IsHost(LobbyOf(Cur, u), u) /\ ~Transient(lobbyClients[u])) =>
          LET lobby == LobbyOf(Cur, u)
              f == findSlotById(lobby, id)
              R == banPlayer(Cur, u, id)
          IN (f[3].type = "human" /\ f[3].name \in activeClients) =>
                /\ R.err = "ok"
                /\ ~MapHas(R.lobbyClients, f[3].name)
                /\ MapHas(R.lobbies, lobby.name) =>
                     /\ f[3].name \in Banned(R, lobby.name)
                     /\ joinChecks(Fresh(R), f[3].name, lobby.name) = "Conflict"
                     /\ \E t \in 1..Len(lobby.teams) : \E sl \in 1..Len(lobby.teams[t]) :
                          /\ lobby.teams[t][sl].name = f[3].name
                          /\ R.lobbies[lobby.name].teams[t][sl].type = "open"
  /\ \A name \in Names : \A v \in Banned(Cur, name) :
       MapHas(lobbies, name) =>
          /\ joinChecks(Cur, v, name) = "Conflict"
          /\ \A R \in Outcomes : MapHas(R.lobbies, name) => v \in Banned(R, name)

\* A forming lobby with an open slot and a banned user that has no client
\* elsewhere: the ban list alone rejects its join.
C14_Witness ==
  \E name \in Names : \E v \in Banned(Cur, name) :
     /\ MapHas(lobbies, name)
     /\ ~Transient(name)
     /\ findAvailableSlot(lobbies[name]) # NotFound
     /\ v \notin activeClients
     /\ joinChecks(Cur, v, name) = "Conflict"

\* ---------------------------------------------------------------- C15
Full(name) == MapHas(lobbies, name) /\ findAvailableSlot(lobbies[name]) = NotFound

\* C15: in every state the checks of a join of a lobby without an open slot
\* end in Conflict, and no step that changes the lobby table, the client
\* associations, the activity registrations or anything else is a join of
\* such a lobby.
C15_FullLobbyRejectsJoin ==
  /\ [](\A u \in Users, name \in Names : Full(name) => joinChecks(Cur, u, name) = "Conflict")
  /\ [][\A u \in Users, name \in Names : Full(name) => ~JoinBegin(u, name)]_vars

\* A forming lobby whose slots are all taken or closed, and a user that is not
\* banned from it and has no client elsewhere: only fullness rejects the join.
C15_Witness ==
  \E u \in Users, name \in Names :
     /\ Full(name)
     /\ ~Transient(name)
     /\ u \notin Banned(Cur, name)
     /\ u \notin activeClients
     /\ joinChecks(Cur, u, name) = "Conflict"

\* ---------------------------------------------------------------- C16
\* C16 as stated: a create never starts for a name that has a lobby, and no
\* create that resumes from its map lookup replaces the lobby stored under
\* its name.
C16_CreateNeverOverwrites ==
  /\ \A u \in Users, name \in Names, st \in SubTypeInputs :
       MapHas(lobbies, name) =>
          ~ENABLED (CreateBeginWithin(MaxOverlap, u, name, "topVBottom", st) /\ ~UNCHANGED vars)
  /\ \A p \in suspended :
       (p.cmd = "create" /\ MapHas(lobbies, p.name)) =>
          createResume(Cur, p).lobbies[p.name] = lobbies[p.name]

\* ---------------------------------------------------------------- C17
\* C17: a create that resumes for a user the activity registry already has a
\* client of throws Conflict (BadRequest when its sub-type is invalid, which
\* is checked first) and changes and publishes nothing; a join by such a user
\* fails, with Conflict when the lobby exists, and changes nothing; a create
\* that is accepted registers its user and associates it with its lobby only;
\* and the association table gives each client one lobby name at most.
C17_ActiveUserCannotCreateOrJoin ==
  /\ \A p \in suspended :
       p.cmd = "create" =>
          LET R == createResume(Cur, p)
          IN /\ p.user \in activeClients =>
                  /\ Rejected(R)
                  /\ R.err = IF checkSubTypeValidity(p.gameType, p.gameSubType, MapSlots)
                             THEN "Conflict" ELSE "BadRequest"
             /\ R.err = "ok" =>
                  /\ p.user \notin activeClients
                  /\ R.activeClients = activeClients \cup {p.user}
                  /\ R.lobbyClients = MapSet(lobbyClients, p.user, p.name)
  /\ \A u \in activeClients, name \in Names :
       /\ joinChecks(Cur, u, name) = IF MapHas(lobbies, name) THEN "Conflict" ELSE "NotFound"
       /\ ~ENABLED (JoinBegin(u, name) /\ ~UNCHANGED vars)
  /\ \A u \in Users : Cardinality({name \in Names : <<u, name>> \in
                          {<<v, lobbyClients[v]>> : v \in DOMAIN lobbyClients}}) <= 1

\* A create with a valid sub-type suspended in its map lookup for a user that
\* has a registered client, and a lobby a registered user may try to join.
C17_Witness ==
  /\ \E p \in suspended :
       /\ p.cmd = "create"
       /\ p.user \in activeClients
       /\ createResume(Cur, p).err = "Conflict"

\* ---------------------------------------------------------------- C18
\* What each command a client may send in the current state leaves behind:
\* RawSteps without the timer and loader events.
CommandSteps ==
  UNION {{addComputer(Cur, u, id), changeSlot(Cur, u, id), openSlot(Cur, u, id),
          closeSlot(Cur, u, id), kickPlayer(Cur, u, id), banPlayer(Cur, u, id),
          makeObserver(Cur, u, id), removeObserver(Cur, u, id)} :
           u \in Users, id \in SlotIdInputs}
  \cup {setRace(Cur, u, id, race) : u \in Users, id \in SlotIdInputs, race \in Races}
  \cup {leave(Cur, u) : u \in Users}
  \cup {startCountdown(Cur, u) : u \in Users}
  \cup {createResume(Cur, p) : p \in {q \in suspended : q.cmd = "create"}}
  \cup {joinResume(Cur, p) : p \in {q \in suspended : q.cmd = "join"}}

\* C18 as stated: a command that ends with an error has changed no table and
\* no activity registration and has published nothing.
C18_FailedCommandChangesNothing ==
  \A R \in CommandSteps : R.err # "ok" => Rejected(R)

\* ---------------------------------------------------------------- C19
\* C19 as stated: the lobby a join commits derives from the lobby stored at
\* commit time: that lobby exists, the joiner takes a slot that is open in it,
\* and every other slot is committed as it stands there, whatever happened to
\* the lobby while the join was suspended in its map lookup.
C19_JoinCommitsCurrentSnapshot ==
  \A p \in suspended :
     p.cmd = "join" =>
        LET R == joinResume(Cur, p)
        IN R.err = "ok" =>
             /\ MapHas(lobbies, p.name)
             /\ LET now == lobbies[p.name]
                    new == R.lobbies[p.name]
                IN /\ Len(new.teams) = Len(now.teams)
                   /\ \A t \in 1..Len(new.teams) :
                        /\ Len(new.teams[t]) = Len(now.teams[t])
                        /\ \A sl \in 1..Len(new.teams[t]) :
                             IF new.teams[t][sl].type = "human"
                                /\ new.teams[t][sl].name = p.user
                             THEN now.teams[t][sl].type = "open"
                             ELSE /\ new.teams[t][sl].type = now.teams[t][sl].type
                                  /\ new.teams[t][sl].name = now.teams[t][sl].name
                                  /\ new.teams[t][sl].race = now.teams[t][sl].race

\* ---------------------------------------------------------------- C20
WellFormed(lobby) ==
  /\ \A i, j \in 1..Len(getLobbySlots(lobby)) :
       getLobbySlots(lobby)[i].id = getLobbySlots(lobby)[j].id => i = j
  /\ findSlotById(lobby, lobby.host)[3].type = "human"
  /\ Len(getHumanSlots(lobby)) >= 1

NotHost(u) ==
  /\ Member(u)
  /\ findSlotByName(LobbyOf(Cur, u), u)[3] # NoSlot
  /\ ~IsHost(LobbyOf(Cur, u), u)

\* The slot of the id is a computer's.
IsComputer(lobby, id) ==
  findSlotById(lobby, id)[3] # NoSlot /\ findSlotById(lobby, id)[3].type = "computer"

\* The host-only commands as u may issue them: setRace counts when the slot
\* it names is a computer's.
HostOnlySteps(u) ==
  UNION {{addComputer(Cur, u, id), openSlot(Cur, u, id), closeSlot(Cur, u, id),
          kickPlayer(Cur, u, id), banPlayer(Cur, u, id), makeObserver(Cur, u, id),
          removeObserver(Cur, u, id)} : id \in WideSlotIdInputs}
  \cup {startCountdown(Cur, u)}
  \cup {setRace(Cur, u, id, race) :
          id \in {x \in WideSlotIdInputs : IsComputer(LobbyOf(Cur, u), x)},
          race \in Races}

\* C21 as stated: a host-only command of a caller whose slot is not the
\* host's throws Unauthorized and leaves every table as it was.
C21_NonHostGetsUnauthorized ==
  \A u \in Users :
    NotHost(u) => \A R \in HostOnlySteps(u) : R.err = "Unauthorized" /\ Rejected(R)

\* C21: a host-only command of a caller whose slot is not the host's throws
\* and leaves every table as it was, having published nothing. It throws
\* Unauthorized, but for startCountdown in a lobby without two opposing sides
\* (BadRequest) and setRace on a computer slot of a loading lobby (Conflict).
C21_NonHostRejected ==
  \A u \in Users :
    NotHost(u) =>
      /\ \A R \in HostOnlySteps(u) : Rejected(R)
      /\ \A id \in WideSlotIdInputs :
           \A R \in {addComputer(Cur, u, id), openSlot(Cur, u, id), closeSlot(Cur, u, id),
                     kickPlayer(Cur, u, id), banPlayer(Cur, u, id),
                     makeObserver(Cur, u, id), removeObserver(Cur, u, id)} :
             R.err = "Unauthorized"
      /\ startCountdown(Cur, u).err =
           IF hasOpposingSides(LobbyOf(Cur, u)) THEN "Unauthorized" ELSE "BadRequest"
      /\ \A id \in WideSlotIdInputs, race \in Races :
           IsComputer(LobbyOf(Cur, u), id) =>
             setRace(Cur, u, id, race).err =
               IF Loading(lobbyClients[u]) THEN "Conflict" ELSE "Unauthorized"

\* A member who is not the host, in a loading lobby that holds a computer.
C21_Witness ==
  \E u \in Users :
    /\ NotHost(u)
    /\ Loading(lobbyClients[u])
    /\ \E id \in WideSlotIdInputs : IsComputer(LobbyOf(Cur, u), id)

\* ---------------------------------------------------------------- C22
\* The in-lobby commands as the connection conn may issue them.
InLobbySteps(conn) ==
  UNION {{ByClient(Cur, conn, LAMBDA u : addComputer(Cur, u, id)),
          ByClient(Cur, conn, LAMBDA u : changeSlot(Cur, u, id)),
          ByClient(Cur, conn, LAMBDA u : openSlot(Cur, u, id)),
          ByClient(Cur, conn, LAMBDA u : closeSlot(Cur, u, id)),
          ByClient(Cur, conn, LAMBDA u : kickPlayer(Cur, u, id)),
          ByClient(Cur, conn, LAMBDA u : banPlayer(Cur, u, id)),
          ByClient(Cur, conn, LAMBDA u : makeObserver(Cur, u, id)),
          ByClient(Cur, conn, LAMBDA u : removeObserver(Cur, u, id))} :
           id \in SlotIdInputs}
  \cup {ByClient(Cur, conn, LAMBDA u : setRace(Cur, u, id, race)) :
          id \in SlotIdInputs, race \in Races}
  \cup {ByClient(Cur, conn, LAMBDA u : sendChat(Cur, u, len)) : len \in ChatLengthInputs}
  \cup {ByClient(Cur, conn, LAMBDA u : startCountdown(Cur, u))}
  \cup {leaveByUser(Cur, conn)}

\* The connection's client is in no lobby.
InNoLobby(conn) ==
  /\ getClient(conn) = "ok"
  /\ conn.client # 1 \/ ~MapHas(lobbyClients, conn.user)

\* C22 as stated: a command on a connection with no client throws
\* Unauthorized, an in-lobby command of a client that is in no lobby throws
\* BadRequest, and both leave every table as it was.
C22_UnresolvedCallersRejected ==
  \A conn \in Connections :
    /\ getClient(conn) # "ok" =>
         /\ \A R \in InLobbySteps(conn) : R.err = "Unauthorized" /\ Rejected(R)
         /\ openByUser(Cur, conn).err = "Unauthorized" /\ Rejected(openByUser(Cur, conn))
    /\ InNoLobby(conn) =>
         \A R \in InLobbySteps(conn) : R.err = "BadRequest" /\ Rejected(R)

\* ---------------------------------------------------------------- C23
\* The count of the socket's list subscription; 0 when it has none.
Count(R, socket) ==
  IF MapHas(R.subscribedSockets, socket) THEN R.subscribedSockets[socket] ELSE 0

\* The transport calls of one type made in R.
Calls(R, type) == Cardinality({i \in 1..Len(R.out) : R.out[i].type = type})

\* The subscribe and unsubscribe calls of calls, made one after the other on
\* the socket; R.out keeps the transport calls of all of them.
RECURSIVE RunCalls(_, _, _)
RunCalls(R, socket, calls) ==
  IF calls = <<>> THEN R
  ELSE RunCalls(IF Head(calls) = "subscribe" THEN subscribe([R EXCEPT !.err = "ok"], socket)
                ELSE unsubscribe([R EXCEPT !.err = "ok"], socket),
                socket, Tail(calls))

\* The sequences of up to MaxSubscribes + 1 subscribe / unsubscribe calls.
CallSequences ==
  UNION {[1..n -> {"subscribe", "unsubscribe"}] : n \in 1..(MaxSubscribes + 1)}

Occurrences(calls, call) == Cardinality({i \in 1..Len(calls) : calls[i] = call})

\* C23: list subscriptions are counted per socket. A socket is subscribed at
\* the transport exactly while its count is 1 or more; subscribe adds one to
\* the count and calls the transport only when there was none; unsubscribe
\* takes one off and calls the transport only when the count was 1; so after
\* k subscribe and j < k unsubscribe calls the socket is still subscribed.
C23_ListSubscriptionsRefCounted ==
  \A socket \in openSockets :
    /\ socket \in listChannel <=> Count(Cur, socket) >= 1
    /\ LET R == subscribe(Cur, socket)
       IN /\ R.err = "ok"
          /\ Count(R, socket) = Count(Cur, socket) + 1
          /\ socket \in R.listChannel
          /\ Calls(R, "subscribeClient") = IF Count(Cur, socket) = 0 THEN 1 ELSE 0
          /\ Calls(R, "unsubscribeClient") = 0
    /\ Count(Cur, socket) >= 1 =>
         LET R == unsubscribe(Cur, socket)
         IN /\ R.err = "ok"
            /\ Count(R, socket) = Count(Cur, socket) - 1
            /\ socket \in R.listChannel <=> Count(Cur, socket) > 1
            /\ Calls(R, "unsubscribeClient") = IF Count(Cur, socket) = 1 THEN 1 ELSE 0
            /\ Calls(R, "subscribeClient") = 0
    /\ Count(Cur, socket) = 0 =>
         \A calls \in CallSequences :
           Occurrences(calls, "unsubscribe") < Occurrences(calls, "subscribe") =>
             /\ socket \in RunCalls(Cur, socket, calls).listChannel
             /\ Count(RunCalls(Cur, socket, calls), socket) >= 1

\* A socket that subscribed more than once, beside one that subscribed once.
C23_Witness ==
  \E s1, s2 \in openSockets : Count(Cur, s1) > 1 /\ Count(Cur, s2) = 1

\* ---------------------------------------------------------------- C24
\* C24: unsubscribe on a socket that has no list subscription, open or
\* closed, throws Conflict and leaves all state as it was; the count of every
\* subscription there is is 1 or more.
C24_UnsubscribeWithoutSubscription ==
  /\ \A socket \in Sockets :
       ~MapHas(subscribedSockets, socket) =>
         unsubscribe(Cur, socket).err = "Conflict" /\ Rejected(unsubscribe(Cur, socket))
  /\ \A socket \in DOMAIN subscribedSockets : subscribedSockets[socket] >= 1
  /\ \A R \in {subscribe(Cur, socket) : socket \in openSockets}
            \cup {unsubscribe(Cur, socket) : socket \in openSockets}
            \cup {onSocketClose(Cur, socket) : socket \in openSockets} :
       \A socket \in DOMAIN R.subscribedSockets : R.subscribedSockets[socket] >= 1

\* One socket has closed and has no subscription; another holds one.
C24_Witness ==
  \E s1, s2 \in Sockets :
    /\ s1 \notin openSockets /\ ~MapHas(subscribedSockets, s1)
    /\ s2 \in openSockets /\ MapHas(subscribedSockets, s2)

\* ---------------------------------------------------------------- C25
\* The group of an event type, in the order the groups are to be sent.
Group(type) ==
  IF type = "hostChange" THEN 1
  ELSE IF type \in {"kick", "ban", "leave"} THEN 2
  ELSE IF type = "slotDeleted" THEN 3
  ELSE IF type = "slotCreate" THEN 4
  ELSE 5

\* The diff messages published in R.
DiffsIn(R) == {R.out[i].arg : i \in {j \in 1..Len(R.out) : R.out[j].type = "diff"}}

\* C25: in every diff message a command, timer or loader event publishes,
\* the events come group by group: host change, departures, deleted slots,
\* created slots, same-id changes; a host change is the first event.
C25_DiffEventsOrdered ==
  \A R \in Outcomes :
    \A events \in DiffsIn(R) :
      /\ \A i, j \in 1..Len(events) :
           i < j => Group(events[i].type) <= Group(events[j].type)
      /\ \A i \in 1..Len(events) : events[i].type = "hostChange" => i = 1

\* A command is about to publish a diff with a host change, a departure and a
\* created slot.
C25_Witness ==
  \E R \in Outcomes :
    \E events \in DiffsIn(R) :
      {1, 2, 4} \subseteq {Group(events[i].type) : i \in 1..Len(events)}

\* ---------------------------------------------------------------- C26
\* The calls of _publishLobbyDiff made in R.
DiffCalls(R) == SeqRange(R.diffs)

\* C26: a call of the diff with one snapshot for old and new publishes
\* nothing, on the lobby's channel or on the list's, and no diff message
\* carries an empty list of events.
C26_SameSnapshotPublishesNothing ==
  \A R \in Outcomes :
    /\ \A d \in DiffCalls(R) : d.oldLobby = d.newLobby => d.sent = <<>>
    /\ \A events \in DiffsIn(R) : Len(events) > 0

\* A command is about to pass one snapshot twice: setRace with the race the
\* slot has.
C26_Witness ==
  \E R \in Outcomes :
    R.err = "ok" /\ \E d \in DiffCalls(R) : d.oldLobby = d.newLobby

\* ---------------------------------------------------------------- C27
\* The events of the diff message the call d published; none if it sent none.
EventsOf(d) ==
  IF \E i \in 1..Len(d.sent) : d.sent[i].type = "diff"
  THEN d.sent[CHOOSE i \in 1..Len(d.sent) : d.sent[i].type = "diff"].arg
  ELSE <<>>

\* The human slots of the call's old snapshot whose id the new one lacks.
Departed(d) ==
  {sl \in SeqRange(getLobbySlots(d.oldLobby)) :
     sl.type = "human" /\ sl.id \notin SlotIds(d.newLobby)}

DepartureType(d, player) ==
  IF d.kickedUser = player.name THEN "kick"
  ELSE IF d.bannedUser = player.name THEN "ban"
  ELSE "leave"

\* C27: the diff of two different snapshots holds one departure event for each
\* human slot of the old one whose id the new one lacks: kick for the kicked
\* hint's player, else ban for the banned hint's, else leave; and it holds no
\* other departure event.
C27_OneDepartureEventPerLeaver ==
  \A R \in WideOutcomes :
    \A d \in {x \in DiffCalls(R) : x.oldLobby # x.newLobby} :
      /\ \A player \in Departed(d) :
           /\ Cardinality({i \in 1..Len(EventsOf(d)) :
                             /\ Group(EventsOf(d)[i].type) = 2
                             /\ EventsOf(d)[i].slot.id = player.id}) = 1
           /\ \E i \in 1..Len(EventsOf(d)) :
                EventsOf(d)[i] = Event(DepartureType(d, player), 0, 0, player)
      /\ \A i \in 1..Len(EventsOf(d)) :
           Group(EventsOf(d)[i].type) = 2 => EventsOf(d)[i].slot \in Departed(d)

\* A lobby from which one command is about to publish a kick, another a ban
\* and a third a leave, and a fourth removes a computer.
C27_Witness ==
  /\ \A type \in {"kick", "ban", "leave"} :
       \E R \in WideOutcomes : \E d \in DiffCalls(R) :
         \E i \in 1..Len(EventsOf(d)) : EventsOf(d)[i].type = type
  /\ \E R \in WideOutcomes : \E d \in DiffCalls(R) :
       \E sl \in SeqRange(getLobbySlots(d.oldLobby)) :
         sl.type = "computer" /\ sl.id \notin SlotIds(d.newLobby)

\* ---------------------------------------------------------------- C28
\* What a client makes of one event: hostChange sets the host, slotDeleted
\* takes the slot at the index out of its team, slotCreate and slotChange put
\* the slot at the coordinates, raceChange sets the race there; a departure
\* changes nothing (the slotCreate that follows does).
ApplyEvent(lobby, e) ==
  IF e.type = "hostChange" THEN [lobby EXCEPT !.host = e.slot.id]
  ELSE IF e.type = "slotDeleted"
       THEN [lobby EXCEPT !.teams[e.teamIndex] =
               SubSeq(@, 1, e.slotIndex - 1) \o SubSeq(@, e.slotIndex + 1, Len(@))]
  ELSE IF e.type \in {"slotCreate", "slotChange"}
       THEN SetSlot(lobby, e.teamIndex, e.slotIndex, e.slot)
  ELSE IF e.type = "raceChange"
       THEN [lobby EXCEPT !.teams[e.teamIndex][e.slotIndex].race = e.slot.race]
  ELSE lobby

RECURSIVE Replay(_, _)
Replay(lobby, events) ==
  IF events = <<>> THEN lobby ELSE Replay(ApplyEvent(lobby, Head(events)), Tail(events))

\* C28: for every pair of snapshots a command passes to the diff, the events
\* published, applied in order to the old snapshot as a client applies them,
\* give the new snapshot: its host, and the slot at every coordinate.
C28_DiffReplayGivesNew ==
  \A R \in WideOutcomes :
    \A d \in DiffCalls(R) : Replay(d.oldLobby, EventsOf(d)) = d.newLobby

\* A command is about to publish a diff that moves a slot, and another one a
\* diff that changes the host.
C28_Witness ==
  /\ \E R \in WideOutcomes : \E d \in DiffCalls(R) :
       \E i \in 1..Len(EventsOf(d)) : EventsOf(d)[i].type = "slotChange"
  /\ \E R \in WideOutcomes : \E d \in DiffCalls(R) :
       \E i \in 1..Len(EventsOf(d)) : EventsOf(d)[i].type = "hostChange"

\* ---------------------------------------------------------------- C29
\* The positions in the call's events of the events of a type about a slot id.
EventsAbout(d, type, id) ==
  {i \in 1..Len(EventsOf(d)) : EventsOf(d)[i].type = type /\ EventsOf(d)[i].slot.id = id}

\* The slot of the id in the new snapshot, as an event of the type.
NewSlotEvent(d, type, id) ==
  LET Ev(n) == [type |-> type, teamIndex |-> n[1], slotIndex |-> n[2], slot |-> n[3]]
  IN Ev(findSlotById(d.newLobby, id))

\* The slot of the id is at the same coordinates in both snapshots.
SamePlace(d, id) ==
  /\ findSlotById(d.oldLobby, id)[1] = findSlotById(d.newLobby, id)[1]
  /\ findSlotById(d.oldLobby, id)[2] = findSlotById(d.newLobby, id)[2]

\* C29: the diff holds one slotCreate, with the slot and its coordinates, for
\* each slot id only the new snapshot has, and none for another id; for an id
\* both snapshots have it holds a slotChange exactly when the coordinates
\* differ and a raceChange exactly when they are equal and the race differs,
\* each once and with the new coordinates.
C29_CreatesAndSameIdChanges ==
  \A R \in WideOutcomes :
    \A d \in DiffCalls(R) :
      /\ \A id \in SlotIds(d.newLobby) \ SlotIds(d.oldLobby) :
           /\ Cardinality(EventsAbout(d, "slotCreate", id)) = 1
           /\ \A i \in EventsAbout(d, "slotCreate", id) :
                EventsOf(d)[i] = NewSlotEvent(d, "slotCreate", id)
      /\ \A i \in 1..Len(EventsOf(d)) :
           EventsOf(d)[i].type = "slotCreate" =>
             EventsOf(d)[i].slot.id \in SlotIds(d.newLobby) \ SlotIds(d.oldLobby)
      /\ \A id \in SlotIds(d.newLobby) \cap SlotIds(d.oldLobby) :
           /\ Cardinality(EventsAbout(d, "slotChange", id)) =
                IF SamePlace(d, id) THEN 0 ELSE 1
           /\ Cardinality(EventsAbout(d, "raceChange", id)) =
                IF SamePlace(d, id)
                   /\ findSlotById(d.oldLobby, id)[3].race
                        # findSlotById(d.newLobby, id)[3].race
                THEN 1 ELSE 0
           /\ \A type \in {"slotChange", "raceChange"} :
                \A i \in EventsAbout(d, type, id) :
                  EventsOf(d)[i] = NewSlotEvent(d, type, id)
      /\ \A i \in 1..Len(EventsOf(d)) :
           EventsOf(d)[i].type \in {"slotChange", "raceChange"} =>
             EventsOf(d)[i].slot.id \in SlotIds(d.newLobby) \cap SlotIds(d.oldLobby)

\* Three commands are about to publish a slotCreate, a slotChange and a
\* raceChange.
C29_Witness ==
  \A type \in {"slotCreate", "slotChange", "raceChange"} :
    \E R \in WideOutcomes : \E d \in DiffCalls(R) :
      \E i \in 1..Len(EventsOf(d)) :
        EventsOf(d)[i].type = type /\ EventsOf(d)[i].teamIndex = 2


\* ---------------------------------------------------------------- C30
\* The teams of the call with fewer slots in the new snapshot than in the old.
Shrunk(d) ==
  {t \in 1..Len(d.oldLobby.teams) : Len(d.newLobby.teams[t]) < Len(d.oldLobby.teams[t])}

\* The slotDeleted events of the call that name the team.
DeletedIn(d, t) ==
  {i \in 1..Len(d.events) : d.events[i].type = "slotDeleted" /\ d.events[i].teamIndex = t}

\* One slotDeleted event for the team, carrying the index the caller passed.
OneDeletedWithHint(d, t) ==
  /\ Cardinality(DeletedIn(d, t)) = 1
  /\ \A i \in DeletedIn(d, t) : d.events[i].slotIndex = d.deletedSlotIndex

\* Taking the slot at the index the caller passed out of the old team gives
\* the new team.
HintIsGoneSlot(d, t) ==
  LET Without(team, s) ==
        s \in 1..Len(team)
        /\ SubSeq(team, 1, s - 1) \o SubSeq(team, s + 1, Len(team)) = d.newLobby.teams[t]
  IN Without(d.oldLobby.teams[t], d.deletedSlotIndex)

InSubTypeRange(gameType, gameSubType, n) ==
  IF gameType = "topVBottom" THEN gameSubType \in 1..(n - 1)
  ELSE IF gameType \in {"teamMelee", "teamFfa"} THEN gameSubType \in 2..Min({4, n})
  ELSE TRUE

\* The create calls awaiting getMapInfo.
PendingCreates == {p \in suspended : p.cmd = "create"}

\* C31, as stated: a create call fails with BadRequest, creating no lobby,
\* exactly when its sub-type is outside the range of its game type, the range
\* taken over the slots the lobby gets.
C31_SubTypeRangeOverLobbySlots ==
  \A p \in PendingCreates :
    LET Fails(R) == R.err = "BadRequest" /\ Rejected(R)
    IN Fails(createResume(Cur, p))
       <=> ~InSubTypeRange(p.gameType, p.gameSubType, lobbyNumSlots(p.gameType, p.numSlots))

\* C31, amended: a create call fails with BadRequest, creating no lobby,
\* exactly when getMapInfo finds no map or the sub-type is outside the range of
\* the game type, the range taken over the slots of the map; any other create
\* call fails with Conflict or stores a lobby of its game type and sub-type.
C31_SubTypeRangeOverMapSlots ==
  \A p \in PendingCreates :
    LET Fails(R) == R.err = "BadRequest" /\ Rejected(R)
        Stores(R) == /\ R.err = "ok"
                     /\ MapHas(R.lobbies, p.name)
                     /\ R.lobbies[p.name].gameType = p.gameType
                     /\ R.lobbies[p.name].gameSubType = p.gameSubType
        Settles(R) ==
          /\ Fails(R) <=> (p.numSlots = NoMap
                           \/ ~InSubTypeRange(p.gameType, p.gameSubType, p.numSlots))
          /\ ~Fails(R) => (R.err = "Conflict" /\ Rejected(R)) \/ Stores(R)
    IN Settles(createResume(Cur, p))

\* A team melee create with three teams on a map of two slots is about to be
\* rejected: three is in range for the eight slots of the lobby, not for the map.
C31_Witness ==
  \E p \in PendingCreates :
    /\ p.gameType = "teamMelee" /\ p.gameSubType = 3 /\ p.numSlots = MapSlots
    /\ createResume(Cur, p).err = "BadRequest"
    /\ \E q \in PendingCreates :
         q.gameType = "teamMelee" /\ lobbyNumSlots(q.gameType, q.numSlots) = TeamModeSlots


\* ---------------------------------------------------------------- C32
\* The cancelCountdown messages the step published on the channel of the name.
CancelsOf(R, name) ==
  {i \in 1..Len(R.out) :
     R.out[i].type = "cancelCountdown" /\ R.out[i].path = <<"lobbies", name>>}

\* The lobby views _maybeCancelCountdown can be called with: those of the
\* stored lobbies and the snapshots of the startCountdown calls.
CancelViews ==
  {View(lobbies[n]) : n \in DOMAIN lobbies} \cup {handshakes[h].lobby : h \in Awaiting}

\* C32: _maybeCancelCountdown on a lobby without a countdown record changes
\* and publishes nothing; a step publishes cancelCountdown for a name once at
\* most, only when the name had a countdown record, which the step deletes
\* with its timer rejected; and a call whose timer was rejected ends rolled
\* back with no allowStart timer armed and no game started, its 5 s timer
\* unable to fire.
C32_CancelIdempotent ==
  /\ \A lobby \in CancelViews :
       ~MapHas(lobbyCountdowns, lobby.name) => maybeCancelCountdown(Cur, lobby) = Cur
  /\ \A R \in Outcomes :
       /\ \A name \in Names :
            /\ Cardinality(CancelsOf(R, name)) <= 1
            /\ CancelsOf(R, name) # {} =>
                 /\ MapHas(lobbyCountdowns, name)
                 /\ ~MapHas(R.lobbyCountdowns, name)
                 /\ R.handshakes[lobbyCountdowns[name]].timer = "rejected"
                 /\ ~PubType(R, "allowStart") /\ ~PubType(R, "gameStarted")
       /\ \A h \in DOMAIN R.handshakes :
            R.handshakes[h].timer = "rejected" =>
              /\ R.handshakes[h].outcome = "rolledBack"
              /\ R.handshakes[h].allowTimer = "unset"
              /\ ~R.handshakes[h].gameStarted
              /\ MapHas(Live(R.handshakes), h) => Live(R.handshakes)[h].timer # "pending"

\* A step cancels the countdown of a lobby and the startCountdown call then
\* runs its catch block, which calls _maybeCancelCountdown a second time.
C32_Witness ==
  \E R \in Outcomes, name \in Names :
    /\ CancelsOf(R, name) # {}
    /\ \E h \in ReturnedIn(R) :
         R.handshakes[h].outcome = "rolledBack" /\ R.handshakes[h].lobby.name = name


\* ---------------------------------------------------------------- C33
\* The call threw and left every party as it was.
PartyRejected(r) == r.err # "ok" /\ r.parties = parties

C34_AcceptMovesInvitee ==
  \A partyId \in PartyIds, user \in PartyUsers :
    LET HasInvite == MapHas(parties, partyId) /\ user \in parties[partyId].invites
        AtLimit == Cardinality(parties[partyId].members) >= MaxPartySize
        Settles(r) ==
          /\ r.err = "ok" <=> (HasInvite /\ ~AtLimit)
          /\ HasInvite /\ AtLimit => r.err = "Party is full"
          /\ IF r.err = "ok"
             THEN r.parties = [parties EXCEPT ![partyId].invites = @ \ {user},
                                              ![partyId].members = @ \cup {user}]
             ELSE r.parties = parties
    IN Settles(acceptInvite(parties, partyId, user))

\* A party of MaxPartySize members with an invite pending, which it refuses,
\* and with it a second invite.
C34_Witness ==
  \E id \in DOMAIN parties :
    /\ Cardinality(parties[id].members) = MaxPartySize
    /\ \E user \in parties[id].invites :
         acceptInvite(parties, id, user).err = "Party is full"

\* ---------------------------------------------------------------- C35
\* C35: decline and removeInvite fail, changing nothing, when the party does
\* not exist or the target has no invite to it, removeInvite also when the
\* caller is not the party's leader; otherwise each removes the target's
\* invite and leaves the other invites, the members and the leader as they
\* were.
C35_DeclineAndRemoveInvite ==
  \A partyId \in PartyIds, target \in PartyUsers :
    LET HasInvite == MapHas(parties, partyId) /\ target \in parties[partyId].invites
        WithoutInvite == [parties EXCEPT ![partyId].invites = @ \ {target}]
        Settles(r, allowed) ==
          IF HasInvite /\ allowed THEN r.err = "ok" /\ r.parties = WithoutInvite
          ELSE PartyRejected(r)
    IN /\ Settles(decline(parties, partyId, target), TRUE)
       /\ \A caller \in PartyUsers :
            Settles(removeInvite(parties, partyId, caller, target),
                    MapHas(parties, partyId) /\ parties[partyId].leader = caller)

\* A party with two invites and a member who is not the leader: removing one
\* invite leaves the other, and the member may not remove it.
C35_Witness ==
  \E id \in DOMAIN parties :
    /\ Cardinality(parties[id].invites) >= 2
    /\ \E m \in parties[id].members, target \in parties[id].invites :
         /\ m # parties[id].leader
         /\ removeInvite(parties, id, m, target).err # "ok"
         /\ removeInvite(parties, id, parties[id].leader, target).err = "ok"
         /\ decline(parties, id, target).parties[id].invites = parties[id].invites \ {target}


\* ---------------------------------------------------------------- C36
\* The names of the human slots of the lobby.
HumanNames(lobby) == {sl.name : sl \in SeqRange(getHumanSlots(lobby))}

\* C36 as stated: every client the client table associates with a lobby name
\* has a human slot in the lobby stored under that name and holds the
\* activity registration, and every human slot of a stored lobby belongs to a
\* client the table associates with that lobby.
C36_MembershipTablesAgree ==
  /\ \A u \in DOMAIN lobbyClients :
       /\ MapHas(lobbies, lobbyClients[u])
       /\ u \in HumanNames(lobbies[lobbyClients[u]])
       /\ u \in activeClients
  /\ \A name \in DOMAIN lobbies : \A u \in HumanNames(lobbies[name]) :
       MapHas(lobbyClients, u) /\ lobbyClients[u] = name


\* ---------------------------------------------------------------- C37
\* C37 as stated: every name with a countdown record or a loading mark is the
\* name of a stored lobby.
C37_TransientNamesHaveLobby ==
  /\ DOMAIN lobbyCountdowns \subseteq DOMAIN lobbies
  /\ DOMAIN loadingLobbies \subseteq DOMAIN lobbies

\* The part of C37 about the countdown table.
C37_CountdownNamesHaveLobby == DOMAIN lobbyCountdowns \subseteq DOMAIN lobbies


\* ---------------------------------------------------------------- C38
\* The 'add' / 'update' / 'delete' messages of the step on the list channel.
ListMessages(R) ==
  LET RECURSIVE Pick(_)
      Pick(q) == IF q = <<>> THEN <<>>
                 ELSE IF Head(q).path = MOUNT_BASE /\ Head(q).type \in {"add", "update", "delete"}
                      THEN <<Head(q)>> \o Pick(Tail(q))
                      ELSE Pick(Tail(q))
  IN Pick(R.out)

\* The names a viewer of the list channel holds after the messages: 'add'
\* carries a summary, 'delete' a name, 'update' changes no name.
RECURSIVE ReplayList(_, _)
ReplayList(listed, q) ==
  IF q = <<>> THEN listed
  ELSE ReplayList(IF Head(q).type = "add" THEN listed \cup {Head(q).arg.name}
                  ELSE IF Head(q).type = "delete" THEN listed \ {Head(q).arg}
                  ELSE listed,
                  Tail(q))

\* The lobbies of the registry that exist and neither count down nor load.
Listable(R) ==
  {n \in DOMAIN R.lobbies : ~MapHas(R.lobbyCountdowns, n) /\ ~MapHas(R.loadingLobbies, n)}

\* C38 as stated: the list messages of every step take a viewer who holds
\* the listable lobbies of before the step to those of after it; every 'add'
\* names a lobby the registry stores and carries that lobby's summary.
C38_ListFollowsRegistry ==
  \A R \in Outcomes :
    /\ ReplayList(Listable(Cur), ListMessages(R)) = Listable(R)
    /\ \A i \in 1..Len(ListMessages(R)) :
         ListMessages(R)[i].type = "add" =>
           /\ MapHas(R.lobbies, ListMessages(R)[i].arg.name)
           /\ ListMessages(R)[i].arg = toSummaryJson(R.lobbies[ListMessages(R)[i].arg.name])

\* ---------------------------------------------------------------- C39
\* The loader events still open on a handshake: onGameSetup before the game
\* was set up, the promise's resolution after it, its rejection at any time.
LateLoaderEvents(h) ==
  (IF handshakes[h].setupDone THEN {loaderResolve(Cur, h)} ELSE {loaderSetup(Cur, h)})
  \cup {loaderReject(Cur, h)}

\* The registry tables a loader event may touch, the handshake records apart.
RegistryTables(R) ==
  <<CanonAll(R.lobbies), R.lobbyClients, R.lobbyBannedUsers, R.lobbyCountdowns,
    R.loadingLobbies, R.activeClients, R.subscriptions>>

\* C39 as stated: a loader callback or completion that arrives after its
\* call has returned (the handshake was rolled back, or the lobby deleted)
\* changes no registry table, so no lobby is marked loading unless a
\* startCountdown call for its name is still awaiting its handshake.
C39_LateLoaderHasNoEffect ==
  /\ \A h \in DOMAIN handshakes :
       (handshakes[h].outcome = "returned" /\ handshakes[h].loader = "pending") =>
          \A R \in LateLoaderEvents(h) :
             RegistryTables(Settle(R)) = RegistryTables(Cur)
  /\ \A name \in DOMAIN lobbies :
       Loading(name) => \E h \in Awaiting : handshakes[h].lobby.name = name

\* ---------------------------------------------------------------- C40
\* C40: getLobbyState changes no registry table, and a connection with a
\* client is told 'nonexistent' exactly when no lobby has the name; for a
\* name with a lobby it is told 'countingDown' if a countdown record exists,
\* else 'hasStarted' if the name is in the loading table, else 'exists'. So
\* 'countingDown' and 'hasStarted' are never reported for a name without a
\* lobby.
C40_LobbyStateFromTables ==
  \A conn \in Connections, name \in Names :
     LET reply == getLobbyState(Cur, conn, name)
     IN /\ Tables(Settle(Throw(Cur, reply.err))) = Tables(Cur)
        /\ getClient(conn) = "ok" =>
             /\ reply.err = "ok" /\ reply.lobbyName = name
             /\ reply.lobbyState = "nonexistent" <=> ~MapHas(lobbies, name)
             /\ MapHas(lobbies, name) =>
                  reply.lobbyState = IF CountingDown(name) THEN "countingDown"
                                     ELSE IF Loading(name) THEN "hasStarted"
                                     ELSE "exists"
             /\ reply.lobbyState \in {"countingDown", "hasStarted"} => MapHas(lobbies, name)

\* A name is left in the loading table with no lobby behind it, and a
\* connection asking for it is told 'nonexistent'.
C40_Witness ==
  \E conn \in Connections, name \in Names :
     /\ Loading(name) /\ ~MapHas(lobbies, name)
     /\ getLobbyState(Cur, conn, name) = LobbyStateReply("ok", name, "nonexistent")

====
